---- MODULE Spec2Model ----
(***************************************************************************)
(* Monkey front end: lexer (src/lexer/lexer.go), token table               *)
(* (src/token/token.go), Pratt parser (src/parser/parser.go) and the AST   *)
(* renderings (src/ast/ast.go).                                            *)
(*                                                                         *)
(* A Go string is a sequence of bytes: bytes are the numbers 0..255 and a  *)
(* string is a sequence of them.  Go indexes from 0, TLA+ from 1: the byte *)
(* input[i] of the source is input[i + 1] here.  A Go panic (index or      *)
(* slice out of range, call through a nil function value, method call on a *)
(* nil interface) is the flag `panicked`; once set it stays set.           *)
(***************************************************************************)
EXTENDS Integers, Sequences, FiniteSets, TLC

VARIABLES
    stdin,      \* the bytes of the REPL's reader not yet scanned
    stdout,     \* what the REPL has written: one entry per write
    input,      \* the source text handed to lexer.New
    tc,         \* how the caller built input: a record naming its pieces
    lexer,      \* the Lexer object
    prev,       \* the Lexer object as it was when the last NextToken call began
    tok,        \* the token the last direct NextToken call returned
    calls,      \* number of direct NextToken calls made by the caller
    parser,     \* the Parser object (its lexer field is the Lexer object)
    program,    \* the ast.Program under construction / returned by ParseProgram
    rendered,   \* the result of Program.String()
    pc          \* where the caller is

vars == <<stdin, stdout, input, tc, lexer, prev, tok, calls, parser, program, rendered, pc>>

----------------------------------------------------------------------------
(* Bytes and strings *)

Chars ==
    << "a", "b", "c", "d", "e", "f", "g", "h", "i", "j", "k", "l", "m",
       "n", "o", "p", "q", "r", "s", "t", "u", "v", "w", "x", "y", "z" >>

Digits == << "0", "1", "2", "3", "4", "5", "6", "7", "8", "9" >>

Punct ==
    ("\t" :> 9) @@ ("\n" :> 10) @@ ("\r" :> 13) @@ (" " :> 32) @@ ("!" :> 33)
    @@ ("\"" :> 34) @@ ("(" :> 40) @@ (")" :> 41) @@ ("*" :> 42) @@ ("+" :> 43)
    @@ ("," :> 44) @@ ("-" :> 45) @@ ("/" :> 47) @@ (";" :> 59) @@ ("<" :> 60)
    @@ ("=" :> 61) @@ (">" :> 62) @@ ("@" :> 64) @@ ("A" :> 65) @@ ("L" :> 76) @@ ("V" :> 86)
    @@ ("Z" :> 90) @@ ("_" :> 95) @@ ("{" :> 123) @@ ("}" :> 125)

\* The ASCII code of a character, as Go's rune literals 'a', '=', ... denote it.
Ord(c) ==
    IF c \in DOMAIN Punct THEN Punct[c]
    ELSE IF \E i \in 1..26 : Chars[i] = c
         THEN 96 + (CHOOSE i \in 1..26 : Chars[i] = c)
         ELSE 47 + (CHOOSE i \in 1..10 : Digits[i] = c)

\* A Go string literal, written as the sequence of its characters.
Str(chars) == [i \in 1..Len(chars) |-> Ord(chars[i])]

\* s[i], or a panic when i is out of range (Go's index expression).
Index(s, i) ==
    IF 0 <= i /\ i < Len(s) THEN [ok |-> TRUE, val |-> s[i + 1]]
    ELSE [ok |-> FALSE, val |-> 0]

\* s[lo:hi], or a panic when the bounds are out of range (Go's slice expression).
Slice(s, lo, hi) ==
    IF 0 <= lo /\ lo <= hi /\ hi <= Len(s)
    THEN [ok |-> TRUE, val |-> SubSeq(s, lo + 1, hi)]
    ELSE [ok |-> FALSE, val |-> << >>]

\* string(b) for a byte b: the UTF-8 encoding of the code point b.
ByteToString(b) ==
    IF b < 128 THEN << b >>
    ELSE << 192 + (b \div 64), 128 + (b % 64) >>

----------------------------------------------------------------------------
(* src/token/token.go *)

token_ILLEGAL   == "ILLEGAL"
token_EOF       == "EOF"
token_IDENT     == "IDENT"
token_INT       == "INT"
token_ASSIGN    == "="
token_PLUS      == "+"
token_MINUS     == "-"
token_BANG      == "!"
token_ASTERISK  == "*"
token_SLASH     == "/"
token_LT        == "<"
token_GT        == ">"
token_COMMA     == ","
token_SEMICOLON == ";"
token_LPAREN    == "("
token_RPAREN    == ")"
token_LBRACE    == "{"
token_RBRACE    == "}"
token_FUNCTION  == "FUNCTION"
token_LET       == "LET"
token_TRUE      == "TRUE"
token_FALSE     == "FALSE"
token_IF        == "IF"
token_ELSE      == "ELSE"
token_RETURN    == "RETURN"
token_EQ        == "=="
token_NOT_EQ    == "!="

Token(type, literal) == [Type |-> type, Literal |-> literal]

\* The zero value of token.Token.
ZeroToken == Token("", << >>)

keywords ==
    (Str(<<"f", "n">>) :> token_FUNCTION)
    @@ (Str(<<"l", "e", "t">>) :> token_LET)
    @@ (Str(<<"t", "r", "u", "e">>) :> token_TRUE)
    @@ (Str(<<"f", "a", "l", "s", "e">>) :> token_FALSE)
    @@ (Str(<<"i", "f">>) :> token_IF)
    @@ (Str(<<"e", "l", "s", "e">>) :> token_ELSE)
    @@ (Str(<<"r", "e", "t", "u", "r", "n">>) :> token_RETURN)

LookupIdent(ident) ==
    IF ident \in DOMAIN keywords THEN keywords[ident] ELSE token_IDENT

----------------------------------------------------------------------------
(* src/lexer/lexer.go *)

\* New had it left nextPos at its zero value.
lexer_New_NextPosZero(in) ==
    [input |-> in, currentChar |-> IF Len(in) > 0 THEN in[1] ELSE 0,
     currentPos |-> 0, nextPos |-> 0, panicked |-> FALSE]

lexer_New(in) ==
    IF Len(in) > 0
    THEN [input |-> in, currentChar |-> in[1], currentPos |-> 0, nextPos |-> 1,
          panicked |-> FALSE]
    ELSE [input |-> in, currentChar |-> 0, currentPos |-> 0, nextPos |-> 0,
          panicked |-> FALSE]

isDigit(b) == Ord("0") <= b /\ b <= Ord("9")

\* isLetter had it left out the underscore.
isLetter_NoUnderscore(b) ==
    \/ Ord("a") <= b /\ b <= Ord("z")
    \/ Ord("A") <= b /\ b <= Ord("Z")

isLetter(b) ==
    \/ Ord("a") <= b /\ b <= Ord("z")
    \/ Ord("A") <= b /\ b <= Ord("Z")
    \/ b = Ord("_")

\* readChar had it tested nextPos == len(input) instead of >=.
readChar_EqEnd(l) ==
    LET set(r) == [l EXCEPT !.currentChar = r.val,
                            !.currentPos = l.nextPos,
                            !.nextPos = l.nextPos + 1,
                            !.panicked = @ \/ ~r.ok]
    IN  set(IF l.nextPos = Len(l.input)
            THEN [ok |-> TRUE, val |-> 0]
            ELSE Index(l.input, l.nextPos))

readChar(l) ==
    LET set(r) == [l EXCEPT !.currentChar = r.val,
                            !.currentPos = l.nextPos,
                            !.nextPos = l.nextPos + 1,
                            !.panicked = @ \/ ~r.ok]
    IN  set(IF l.nextPos >= Len(l.input)
            THEN [ok |-> TRUE, val |-> 0]
            ELSE Index(l.input, l.nextPos))

\* peekChar had it read the byte at currentPos instead of nextPos.
peekChar_Current(l) ==
    IF l.currentPos >= Len(l.input)
    THEN [ok |-> TRUE, val |-> 0]
    ELSE Index(l.input, l.currentPos)

peekChar(l) ==
    IF l.nextPos >= Len(l.input)
    THEN [ok |-> TRUE, val |-> 0]
    ELSE Index(l.input, l.nextPos)

RECURSIVE skipWhitespace(_)
\* skipWhitespace had it left out the carriage return.
skipWhitespace_NoCR(l) ==
    IF l.currentChar \in {Ord(" "), Ord("\t"), Ord("\n")}
    THEN skipWhitespace(readChar(l))
    ELSE l

skipWhitespace(l) ==
    IF l.currentChar \in {Ord(" "), Ord("\t"), Ord("\n"), Ord("\r")}
    THEN skipWhitespace(readChar(l))
    ELSE l

\* The loop of readIdentifier: readChar while isLetter(currentChar).
RECURSIVE readWhileLetter(_)
readWhileLetter(l) ==
    IF isLetter(l.currentChar) THEN readWhileLetter(readChar(l)) ELSE l

\* The loop of readNumber: readChar while isDigit(currentChar).
RECURSIVE readWhileDigit(_)
readWhileDigit(l) ==
    IF isDigit(l.currentChar) THEN readWhileDigit(readChar(l)) ELSE l

\* SliceFrom had it sliced up to and including the byte at currentPos.
SliceFrom_PastEnd(startPos, l) ==
    LET result(s) == [l |-> [l EXCEPT !.panicked = @ \/ ~s.ok], val |-> s.val]
    IN  result(Slice(l.input, startPos, l.currentPos + 1))

\* return l.input[startPos:l.currentPos], l being the lexer after the loop
SliceFrom(startPos, l) ==
    LET result(s) == [l |-> [l EXCEPT !.panicked = @ \/ ~s.ok], val |-> s.val]
    IN  result(Slice(l.input, startPos, l.currentPos))

readIdentifier(l) == SliceFrom(l.currentPos, readWhileLetter(l))

readNumber(l) == SliceFrom(l.currentPos, readWhileDigit(l))

handleSingleCharToken(l, t) == Token(t, ByteToString(l.currentChar))

handleTwoCharToken(l, defaultType, expectedChar, twoCharType) ==
    LET two(pk, l1) ==
            [l |-> [l1 EXCEPT !.panicked = @ \/ ~pk.ok],
             tok |-> Token(twoCharType,
                           ByteToString(l.currentChar)
                               \o ByteToString(l1.currentChar))]
        peeked(pk) ==
            IF pk.val = expectedChar
            THEN two(pk, readChar(l))
            ELSE [l |-> [l EXCEPT !.panicked = @ \/ ~pk.ok],
                  tok |-> handleSingleCharToken(l, defaultType)]
    IN  peeked(peekChar(l))

\* The single-character cases of NextToken's switch.
singleCharCases ==
    (Ord("+") :> token_PLUS) @@ (Ord("(") :> token_LPAREN)
    @@ (Ord(")") :> token_RPAREN) @@ (Ord("{") :> token_LBRACE)
    @@ (Ord("}") :> token_RBRACE) @@ (Ord(",") :> token_COMMA)
    @@ (Ord(";") :> token_SEMICOLON) @@ (Ord("-") :> token_MINUS)
    @@ (Ord("/") :> token_SLASH) @@ (Ord("*") :> token_ASTERISK)
    @@ (Ord("<") :> token_LT) @@ (Ord(">") :> token_GT)

NextToken(l0) ==
    LET \* the end of the switch: `l.readChar(); return tok`
        finish(r) == [l |-> readChar(r.l), tok |-> r.tok]
        identifier(r) == [l |-> r.l, tok |-> Token(LookupIdent(r.val), r.val)]
        number(r) == [l |-> r.l, tok |-> Token(token_INT, r.val)]
        \* the switch on l.currentChar, l the lexer after skipWhitespace
        switch(l, ch) ==
            IF ch = Ord("=")
            THEN finish(handleTwoCharToken(l, token_ASSIGN, Ord("="), token_EQ))
            ELSE IF ch \in DOMAIN singleCharCases
            THEN finish([l |-> l,
                         tok |-> handleSingleCharToken(l, singleCharCases[ch])])
            ELSE IF ch = Ord("!")
            THEN finish(handleTwoCharToken(l, token_BANG, Ord("="), token_NOT_EQ))
            ELSE IF ch = 0
            THEN finish([l |-> l, tok |-> Token(token_EOF, << >>)])
            ELSE IF isLetter(ch)
            THEN identifier(readIdentifier(l))
            ELSE IF isDigit(ch)
            THEN number(readNumber(l))
            ELSE finish([l |-> l, tok |-> Token(token_ILLEGAL, ByteToString(ch))])
        skipped(l) == switch(l, l.currentChar)
    IN  skipped(skipWhitespace(l0))

----------------------------------------------------------------------------
(* strconv.ParseInt(s, 0, 64) on a run of decimal digits, as                *)
(* parseIntegerLiteral calls it.  An int64 value is kept exactly, as its    *)
(* decimal digits, least significant first, without leading zeros (0 is the *)
(* empty sequence), so that no width of the checker's own integers limits   *)
(* it.                                                                      *)

\* n * m + carry on decimal digits, least significant first.
RECURSIVE MulAdd(_, _, _)
MulAdd(n, m, carry) ==
    IF n = << >>
    THEN IF carry = 0 THEN << >>
         ELSE << carry % 10 >> \o MulAdd(<< >>, m, carry \div 10)
    ELSE LET v == Head(n) * m + carry
         IN  << v % 10 >> \o MulAdd(Tail(n), m, v \div 10)

\* Without the zeros at the most significant end.
RECURSIVE Canonical(_)
Canonical(n) ==
    IF n # << >> /\ n[Len(n)] = 0 THEN Canonical(SubSeq(n, 1, Len(n) - 1)) ELSE n

\* The value of the digit run s (bytes '0'..'9') read in the given base.
RECURSIVE DigitsValue(_, _)
DigitsValue(s, base) ==
    IF s = << >> THEN << >>
    ELSE Canonical(MulAdd(DigitsValue(SubSeq(s, 1, Len(s) - 1), base), base,
                          s[Len(s)] - Ord("0")))

\* a <= b on canonical values.
RECURSIVE ValueLeq(_, _)
ValueLeq(a, b) ==
    IF Len(a) # Len(b) THEN Len(a) < Len(b)
    ELSE IF a = << >> THEN TRUE
    ELSE IF a[Len(a)] # b[Len(b)] THEN a[Len(a)] < b[Len(b)]
    ELSE ValueLeq(SubSeq(a, 1, Len(a) - 1), SubSeq(b, 1, Len(b) - 1))

\* 1<<63 - 1
MaxInt64 ==
    DigitsValue(Str(<<"9", "2", "2", "3", "3", "7", "2", "0", "3", "6", "8", "5",
                      "4", "7", "7", "5", "8", "0", "7">>), 10)

\* Base 0: a leading "0" selects octal (the digits after it), else decimal.
\* A digit not below the base is a syntax error, a value above 1<<63 - 1 a
\* range error.
ParseInt(s) ==
    LET octal == Len(s) > 0 /\ s[1] = Ord("0")
        base == IF octal THEN 8 ELSE 10
        body == IF octal THEN Tail(s) ELSE s
        syntax == s = << >> \/ \E i \in 1..Len(body) : body[i] - Ord("0") >= base
        value == DigitsValue(body, base)
    IN  IF syntax THEN [err |-> "invalid syntax", val |-> << >>]
        ELSE IF ~ValueLeq(value, MaxInt64)
        THEN [err |-> "value out of range", val |-> MaxInt64]
        ELSE [err |-> "", val |-> value]

----------------------------------------------------------------------------
(* src/ast/ast.go: the nodes.  A nil interface or nil pointer is NIL.       *)

NIL == [node |-> "nil"]

Identifier(t, value) == [node |-> "Identifier", Token |-> t, Value |-> value]

IntegerLiteral(t, value) == [node |-> "IntegerLiteral", Token |-> t, Value |-> value]

Boolean(t, value) == [node |-> "Boolean", Token |-> t, Value |-> value]

PrefixExpression(t, operator, right) ==
    [node |-> "PrefixExpression", Token |-> t, Operator |-> operator, Right |-> right]

InfixExpression(t, left, operator, right) ==
    [node |-> "InfixExpression", Token |-> t, Left |-> left, Operator |-> operator,
     Right |-> right]

IfExpression(t, condition, consequence, alternative) ==
    [node |-> "IfExpression", Token |-> t, Condition |-> condition,
     Consequence |-> consequence, Alternative |-> alternative]

BlockStatement(t, statements) ==
    [node |-> "BlockStatement", Token |-> t, Statements |-> statements]

LetStatement(t, name, value) ==
    [node |-> "LetStatement", Token |-> t, Name |-> name, Value |-> value]

ReturnStatement(t, value) == [node |-> "ReturnStatement", Token |-> t, Value |-> value]

ExpressionStatement(t, expression) ==
    [node |-> "ExpressionStatement", Token |-> t, Expression |-> expression]

Program(statements) == [Statements |-> statements]

----------------------------------------------------------------------------
(* src/ast/ast.go: String().  The result is [panic, out]: calling String()  *)
(* on a nil child panics; out is what was written.                          *)

Written(bytes) == [panic |-> FALSE, out |-> bytes]

NilDereference == [panic |-> TRUE, out |-> << >>]

\* Two writes to the same buffer, in order.
Cat(a, b) == [panic |-> a.panic \/ b.panic, out |-> a.out \o b.out]

RECURSIVE String(_)
\* The loop of Program.String / BlockStatement.String over its statements.
RECURSIVE StatementsString(_)
StatementsString(statements) ==
    IF statements = << >> THEN Written(<< >>)
    ELSE Cat(String(Head(statements)), StatementsString(Tail(statements)))

Identifier_String(n) == Written(n.Value)

LetStatement_String(n) ==
    Cat(Written(n.Token.Literal \o Str(<<" ">>)),
    Cat(IF n.Name = NIL THEN NilDereference ELSE String(n.Name),
    Cat(Written(Str(<<" ", "=", " ">>)),
    Cat(IF n.Value # NIL THEN String(n.Value) ELSE Written(<< >>),
        Written(Str(<<";">>))))))

\* ReturnStatement.String had it rendered the value without the nil test.
ReturnStatement_String_NoNilTest(n) ==
    Cat(Written(n.Token.Literal \o Str(<<" ">>)),
    Cat(String(n.Value), Written(Str(<<";">>))))

ReturnStatement_String(n) ==
    Cat(Written(n.Token.Literal \o Str(<<" ">>)),
    Cat(IF n.Value # NIL THEN String(n.Value) ELSE Written(<< >>),
        Written(Str(<<";">>))))

ExpressionStatement_String(n) ==
    IF n.Expression # NIL THEN String(n.Expression) ELSE Written(<< >>)

IntegerLiteral_String(n) == Written(n.Token.Literal)

PrefixExpression_String(n) ==
    Cat(Written(Str(<<"(">>) \o n.Operator),
    Cat(String(n.Right), Written(Str(<<")">>))))

\* InfixExpression.String had it left out the closing parenthesis.
InfixExpression_String_NoClose(n) ==
    Cat(Written(Str(<<"(">>)),
    Cat(String(n.Left),
    Cat(Written(Str(<<" ">>) \o n.Operator \o Str(<<" ">>)), String(n.Right))))

InfixExpression_String(n) ==
    Cat(Written(Str(<<"(">>)),
    Cat(String(n.Left),
    Cat(Written(Str(<<" ">>) \o n.Operator \o Str(<<" ">>)),
    Cat(String(n.Right), Written(Str(<<")">>))))))

Boolean_String(n) == Written(n.Token.Literal)

BlockStatement_String(n) == StatementsString(n.Statements)

IfExpression_String(n) ==
    Cat(Written(Str(<<"i", "f">>)),
    Cat(String(n.Condition),
    Cat(Written(Str(<<" ">>)),
    Cat(String(n.Consequence),
        IF n.Alternative # NIL
        THEN Cat(Written(Str(<<"e", "l", "s", "e", " ">>)), String(n.Alternative))
        ELSE Written(<< >>)))))

\* Dynamic dispatch of node.String() on the node's type.
String(n) ==
    CASE n.node = "nil" -> NilDereference
      [] n.node = "Identifier" -> Identifier_String(n)
      [] n.node = "IntegerLiteral" -> IntegerLiteral_String(n)
      [] n.node = "Boolean" -> Boolean_String(n)
      [] n.node = "PrefixExpression" -> PrefixExpression_String(n)
      [] n.node = "InfixExpression" -> InfixExpression_String(n)
      [] n.node = "IfExpression" -> IfExpression_String(n)
      [] n.node = "BlockStatement" -> BlockStatement_String(n)
      [] n.node = "LetStatement" -> LetStatement_String(n)
      [] n.node = "ReturnStatement" -> ReturnStatement_String(n)
      [] n.node = "ExpressionStatement" -> ExpressionStatement_String(n)

Program_String(prog) == StatementsString(prog.Statements)

----------------------------------------------------------------------------
(* src/parser/parser.go.  A method of *Parser is an operator on the parser  *)
(* object p that yields the object as the method leaves it, and, when the   *)
(* method returns something, the record [p, val].  The object carries two   *)
(* observers that the code does not: advances, the number of advanceToken   *)
(* calls so far, and log, one entry per return of an observed method.       *)

LOWEST      == 1
EQUALS      == 2
LESSGREATER == 3
SUM         == 4
PRODUCT     == 5
PREFIX      == 6
CALL        == 7

precedences ==
    (token_EQ :> EQUALS) @@ (token_NOT_EQ :> EQUALS)
    @@ (token_LT :> LESSGREATER) @@ (token_GT :> LESSGREATER)
    @@ (token_PLUS :> SUM) @@ (token_MINUS :> SUM)
    @@ (token_SLASH :> PRODUCT) @@ (token_ASTERISK :> PRODUCT)
    @@ (token_LPAREN :> CALL)

\* The tables New fills with registerPrefix / registerInfix.
prefixParseFns ==
    (token_IDENT :> "parseIdentifier") @@ (token_INT :> "parseIntegerLiteral")
    @@ (token_BANG :> "parsePrefixExpression")
    @@ (token_MINUS :> "parsePrefixExpression")
    @@ (token_TRUE :> "parseBoolean") @@ (token_FALSE :> "parseBoolean")
    @@ (token_LPAREN :> "parseGroupedExpression")
    @@ (token_IF :> "parseIfExpression")

infixParseFns ==
    [t \in {token_PLUS, token_MINUS, token_ASTERISK, token_SLASH, token_GT,
            token_LT, token_EQ, token_NOT_EQ} |-> "parseInfixExpression"]

Ret(p, val) == [p |-> p, val |-> val]

\* One log entry: method fn, entered at p0, returned val leaving p1.
Observe(fn, p0, p1, val) ==
    [p1 EXCEPT !.log = Append(@,
        [fn |-> fn, val |-> val,
         current0 |-> p0.current, peek0 |-> p0.peek,
         advances0 |-> p0.advances, errors0 |-> Len(p0.errors),
         current |-> p1.current, peek |-> p1.peek,
         advances |-> p1.advances, errors |-> Len(p1.errors)])]

\* Method fn, entered at p0, returns r = [p, val]: the same, logged.
Returning(fn, p0, r) == Ret(Observe(fn, p0, r.p, r.val), r.val)

\* The same for a method called with argument arg, which the entry keeps.
ReturningFrom(fn, arg, p0, r) ==
    LET with(q) == [q EXCEPT !.log[Len(q.log)] = @ @@ [arg |-> arg]]
    IN  Ret(with(Observe(fn, p0, r.p, r.val)), r.val)

advanceToken(p) ==
    LET set(r) == [p EXCEPT !.current = p.peek, !.peek = r.tok, !.lexer = r.l,
                            !.advances = @ + 1]
    IN  set(NextToken(p.lexer))

parser_New(l) ==
    advanceToken(advanceToken(
        [lexer |-> l, current |-> ZeroToken, peek |-> ZeroToken,
         errors |-> << >>, panicked |-> FALSE, advances |-> 0, log |-> << >>]))

Errors(p) == p.errors

tokenIs(t, tokenType) == t.Type = tokenType

currentPrecedence(p) ==
    IF p.current.Type \in DOMAIN precedences THEN precedences[p.current.Type]
    ELSE LOWEST

peekPrecedence(p) ==
    IF p.peek.Type \in DOMAIN precedences THEN precedences[p.peek.Type]
    ELSE LOWEST

\* fmt.Sprintf(format, args...)
Sprintf(format, args) == [format |-> format, args |-> args]

\* addError had it put the message in front.
addError_Prepend(p, msg) == [p EXCEPT !.errors = << msg >> \o @]

addError(p, msg) == [p EXCEPT !.errors = Append(@, msg)]

RECURSIVE skipToStatementEnd(_)
skipToStatementEnd(p) ==
    IF p.current.Type # token_SEMICOLON /\ p.current.Type # token_EOF
    THEN skipToStatementEnd(advanceToken(p))
    ELSE p

\* advanceIfPeekIs had it not skipped to the end of the statement on a mismatch.
advanceIfPeekIs_NoSkip(p, t) ==
    IF tokenIs(p.peek, t)
    THEN ReturningFrom("advanceIfPeekIs", t, p, Ret(advanceToken(p), TRUE))
    ELSE ReturningFrom("advanceIfPeekIs", t, p,
             Ret(addError(p, Sprintf("expected next token to be %s, got %s instead",
                                     << t, p.peek.Type >>)),
                 FALSE))

\* advanceIfPeekIs had its message named the current token's kind.
advanceIfPeekIs_GotCurrent(p, t) ==
    IF tokenIs(p.peek, t)
    THEN ReturningFrom("advanceIfPeekIs", t, p, Ret(advanceToken(p), TRUE))
    ELSE ReturningFrom("advanceIfPeekIs", t, p,
             Ret(skipToStatementEnd(
                     addError(p, Sprintf("expected next token to be %s, got %s instead",
                                         << t, p.current.Type >>))),
                 FALSE))

advanceIfPeekIs(p, t) ==
    IF tokenIs(p.peek, t)
    THEN ReturningFrom("advanceIfPeekIs", t, p, Ret(advanceToken(p), TRUE))
    ELSE ReturningFrom("advanceIfPeekIs", t, p,
             Ret(skipToStatementEnd(
                     addError(p, Sprintf("expected next token to be %s, got %s instead",
                                         << t, p.peek.Type >>))),
                 FALSE))

\* noPrefixParseFnError had it recorded nothing.
noPrefixParseFnError_Silent(p, t) == p

noPrefixParseFnError(p, t) ==
    addError(p, Sprintf("no prefix parse function for %s found", << t >>))

RECURSIVE parseExpression(_, _)
RECURSIVE parseStatement(_)

\* In the methods below a step that uses the result of a call is a local
\* operator taking that result; the steps are listed last first.

\* parseLetStatement had it not required the `=` after the name.
parseLetStatement_NoAssign(p) ==
    LET afterIdent(a1) ==
            IF ~a1.val THEN Ret(a1.p, NIL)
            ELSE Ret(skipToStatementEnd(a1.p),
                     LetStatement(p.current,
                                  Identifier(a1.p.current, a1.p.current.Literal), NIL))
    IN  afterIdent(advanceIfPeekIs(p, token_IDENT))

parseLetStatement(p) ==
    LET afterAssign(a2, name) ==
            IF ~a2.val THEN Ret(a2.p, NIL)
            ELSE Ret(skipToStatementEnd(a2.p), LetStatement(p.current, name, NIL))
        afterIdent(a1) ==
            IF ~a1.val THEN Ret(a1.p, NIL)
            ELSE afterAssign(advanceIfPeekIs(a1.p, token_ASSIGN),
                             Identifier(a1.p.current, a1.p.current.Literal))
    IN  afterIdent(advanceIfPeekIs(p, token_IDENT))

parseReturnStatement(p) ==
    Ret(skipToStatementEnd(p), ReturnStatement(p.current, NIL))

parseExpressionStatement(p) ==
    LET afterExpression(r) ==
            IF tokenIs(r.p.peek, token_SEMICOLON)
            THEN Ret(advanceToken(r.p), ExpressionStatement(p.current, r.val))
            ELSE Ret(r.p, ExpressionStatement(p.current, r.val))
    IN  afterExpression(parseExpression(p, LOWEST))

parseIdentifier(p) == Ret(p, Identifier(p.current, p.current.Literal))

parseIntegerLiteral(p) ==
    LET parsed(r) ==
            IF r.err # ""
            THEN Ret(addError(p, Sprintf("could not parse %q as integer",
                                         << p.current.Literal >>)), NIL)
            ELSE Ret(p, IntegerLiteral(p.current, r.val))
    IN  parsed(ParseInt(p.current.Literal))

\* parsePrefixExpression had it parsed its operand at LOWEST instead of PREFIX.
parsePrefixExpression_Lowest(p) ==
    LET afterRight(r) ==
            Ret(r.p, PrefixExpression(p.current, p.current.Literal, r.val))
    IN  afterRight(parseExpression(advanceToken(p), LOWEST))

parsePrefixExpression(p) ==
    LET afterRight(r) ==
            Ret(r.p, PrefixExpression(p.current, p.current.Literal, r.val))
    IN  afterRight(parseExpression(advanceToken(p), PREFIX))

parseInfixExpression(p, left) ==
    LET afterRight(r) ==
            Ret(r.p, InfixExpression(p.current, left, p.current.Literal, r.val))
    IN  afterRight(parseExpression(advanceToken(p), currentPrecedence(p)))

parseBoolean(p) == Ret(p, Boolean(p.current, tokenIs(p.current, token_TRUE)))

\* parseGroupedExpression had it not required the closing parenthesis.
parseGroupedExpression_NoClose(p) == parseExpression(advanceToken(p), LOWEST)

parseGroupedExpression(p) ==
    LET afterRparen(a, expression) ==
            IF ~a.val THEN Ret(a.p, NIL) ELSE Ret(a.p, expression)
        afterExpression(r) == afterRparen(advanceIfPeekIs(r.p, token_RPAREN), r.val)
    IN  afterExpression(parseExpression(advanceToken(p), LOWEST))

\* The loop of parseBlockStatement.
RECURSIVE parseBlockStatements(_, _)
\* parseBlockStatements had the loop been an `if`: one statement at most.
parseBlockStatements_Once(p, statements) ==
    LET afterStatement(r) ==
            Ret(advanceToken(r.p),
                IF r.val # NIL THEN Append(statements, r.val) ELSE statements)
    IN  IF ~tokenIs(p.current, token_RBRACE) /\ ~tokenIs(p.current, token_EOF)
        THEN afterStatement(parseStatement(p))
        ELSE Ret(p, statements)

parseBlockStatements(p, statements) ==
    LET afterStatement(r) ==
            parseBlockStatements(advanceToken(r.p),
                IF r.val # NIL THEN Append(statements, r.val) ELSE statements)
    IN  IF ~tokenIs(p.current, token_RBRACE) /\ ~tokenIs(p.current, token_EOF)
        THEN afterStatement(parseStatement(p))
        ELSE Ret(p, statements)

\* parseBlockStatement had it advanced past the closing brace itself.
parseBlockStatement_PastBrace(p) ==
    LET afterLoop(r) ==
            Returning("parseBlockStatement", p,
                      Ret(advanceToken(r.p), BlockStatement(p.current, r.val)))
    IN  afterLoop(parseBlockStatements(advanceToken(p), << >>))

parseBlockStatement(p) ==
    LET afterLoop(r) ==
            Returning("parseBlockStatement", p,
                      Ret(r.p, BlockStatement(p.current, r.val)))
    IN  afterLoop(parseBlockStatements(advanceToken(p), << >>))

parseIfExpression(p) ==
    LET afterAlternative(alt, condition, consequence) ==
            Ret(alt.p, IfExpression(p.current, condition, consequence, alt.val))
        afterElseBrace(a4, condition, consequence) ==
            IF ~a4.val THEN Ret(a4.p, NIL)
            ELSE afterAlternative(parseBlockStatement(a4.p), condition, consequence)
        afterConsequence(cons, condition) ==
            IF tokenIs(cons.p.peek, token_ELSE)
            THEN afterElseBrace(advanceIfPeekIs(advanceToken(cons.p), token_LBRACE),
                                condition, cons.val)
            ELSE Ret(cons.p, IfExpression(p.current, condition, cons.val, NIL))
        afterBrace(a3, condition) ==
            IF ~a3.val THEN Ret(a3.p, NIL)
            ELSE afterConsequence(parseBlockStatement(a3.p), condition)
        afterRparen(a2, condition) ==
            IF ~a2.val THEN Ret(a2.p, NIL)
            ELSE afterBrace(advanceIfPeekIs(a2.p, token_LBRACE), condition)
        afterCondition(c) == afterRparen(advanceIfPeekIs(c.p, token_RPAREN), c.val)
        afterLparen(a1) ==
            IF ~a1.val THEN Ret(a1.p, NIL)
            ELSE afterCondition(parseExpression(advanceToken(a1.p), LOWEST))
    IN  afterLparen(advanceIfPeekIs(p, token_LPAREN))

\* prefix(): the call through the function value found in prefixParseFns.
callPrefix(p, fn) ==
    Returning(fn, p,
        CASE fn = "parseIdentifier" -> parseIdentifier(p)
          [] fn = "parseIntegerLiteral" -> parseIntegerLiteral(p)
          [] fn = "parsePrefixExpression" -> parsePrefixExpression(p)
          [] fn = "parseBoolean" -> parseBoolean(p)
          [] fn = "parseGroupedExpression" -> parseGroupedExpression(p)
          [] fn = "parseIfExpression" -> parseIfExpression(p)
          [] OTHER -> Ret([p EXCEPT !.panicked = TRUE], NIL))

\* infix(leftExp): the call through the function value found in infixParseFns.
callInfix(p, fn, left) ==
    Returning(fn, p,
        CASE fn = "parseInfixExpression" -> parseInfixExpression(p, left)
          [] OTHER -> Ret([p EXCEPT !.panicked = TRUE], NIL))

\* The value of a map lookup: the zero value (nil) for an absent key.
Lookup(m, k) == IF k \in DOMAIN m THEN m[k] ELSE "nil"

\* The loop of parseExpression.
RECURSIVE parseExpressionLoop(_, _, _)
\* parseExpressionLoop had the loop compared with <= instead of <.
parseExpressionLoop_Leq(p, leftExp, precedence) ==
    LET afterInfix(r) == parseExpressionLoop(r.p, r.val, precedence)
    IN  IF ~tokenIs(p.peek, token_SEMICOLON) /\ precedence <= peekPrecedence(p)
        THEN IF Lookup(infixParseFns, p.peek.Type) = "nil" THEN Ret(p, leftExp)
             ELSE afterInfix(callInfix(advanceToken(p),
                                       Lookup(infixParseFns, p.peek.Type), leftExp))
        ELSE Ret(p, leftExp)

\* parseExpressionLoop had it stepped onto the token that has no infix function.
parseExpressionLoop_StepOn(p, leftExp, precedence) ==
    LET afterInfix(r) == parseExpressionLoop(r.p, r.val, precedence)
    IN  IF ~tokenIs(p.peek, token_SEMICOLON) /\ precedence < peekPrecedence(p)
        THEN IF Lookup(infixParseFns, p.peek.Type) = "nil"
             THEN Ret(advanceToken(p), leftExp)
             ELSE afterInfix(callInfix(advanceToken(p),
                                       Lookup(infixParseFns, p.peek.Type), leftExp))
        ELSE Ret(p, leftExp)

parseExpressionLoop(p, leftExp, precedence) ==
    LET afterInfix(r) == parseExpressionLoop(r.p, r.val, precedence)
    IN  IF ~tokenIs(p.peek, token_SEMICOLON) /\ precedence < peekPrecedence(p)
        THEN IF Lookup(infixParseFns, p.peek.Type) = "nil" THEN Ret(p, leftExp)
             ELSE afterInfix(callInfix(advanceToken(p),
                                       Lookup(infixParseFns, p.peek.Type), leftExp))
        ELSE Ret(p, leftExp)

\* parseExpression had it stepped over the token that has no prefix function.
parseExpression_StepOver(p, precedence) ==
    LET afterPrefix(r) == parseExpressionLoop(r.p, r.val, precedence)
    IN  IF Lookup(prefixParseFns, p.current.Type) = "nil"
        THEN Returning("parseExpression", p,
                       Ret(advanceToken(noPrefixParseFnError(p, p.current.Type)), NIL))
        ELSE afterPrefix(callPrefix(p, Lookup(prefixParseFns, p.current.Type)))

parseExpression(p, precedence) ==
    LET afterPrefix(r) == parseExpressionLoop(r.p, r.val, precedence)
    IN  IF Lookup(prefixParseFns, p.current.Type) = "nil"
        THEN Returning("parseExpression", p,
                       Ret(noPrefixParseFnError(p, p.current.Type), NIL))
        ELSE afterPrefix(callPrefix(p, Lookup(prefixParseFns, p.current.Type)))

parseStatement(p) ==
    Returning("parseStatement", p,
        CASE p.current.Type = token_LET -> parseLetStatement(p)
          [] p.current.Type = token_RETURN -> parseReturnStatement(p)
          [] OTHER -> parseExpressionStatement(p))

\* ParseProgramBody had it appended the statement without the nil test.
ParseProgramBody_AppendNil(p, prog) ==
    LET afterStatement(r) ==
            Ret(advanceToken(r.p), Program(Append(prog.Statements, r.val)))
    IN  afterStatement(parseStatement(p))

\* One iteration of ParseProgram's loop: [p, val], val the Program so far.
\* ParseProgramBody had it not advanced after the statement.
ParseProgramBody_NoAdvance(p, prog) ==
    LET afterStatement(r) ==
            Ret(r.p,
                IF r.val # NIL THEN Program(Append(prog.Statements, r.val))
                ELSE prog)
    IN  afterStatement(parseStatement(p))

ParseProgramBody(p, prog) ==
    LET afterStatement(r) ==
            Ret(advanceToken(r.p),
                IF r.val # NIL THEN Program(Append(prog.Statements, r.val))
                ELSE prog)
    IN  afterStatement(parseStatement(p))

RECURSIVE ParseProgramLoop(_, _)
ParseProgramLoop(p, prog) ==
    LET afterBody(r) == ParseProgramLoop(r.p, r.val)
    IN  IF ~tokenIs(p.current, token_EOF)
        THEN afterBody(ParseProgramBody(p, prog))
        ELSE Ret(p, prog)

ParseProgram(p) == ParseProgramLoop(p, Program(<< >>))

Panicked(p) == p.panicked \/ p.lexer.panicked

----------------------------------------------------------------------------
(* The REPL (package repl, src/unnamed/part_005) and what it uses of bufio   *)
(* and fmt.                                                                  *)

\* const PROMPT: the UTF-8 bytes of the two emoji, then ">> ".
PROMPT == << 240, 159, 144, 146, 240, 159, 146, 187, 62, 62, 32 >>

\* bufio.MaxScanTokenSize: a line of that many bytes or more does not fit
\* the Scanner's buffer.
MaxScanTokenSize == 64 * 1024

\* fmt.Fprint(out, a): one write of a in its default format.
Fprint(a) == Sprintf("%v", << a >>)

\* bufio's dropCR: the line without one trailing carriage return.
dropCR(data) ==
    IF Len(data) > 0 /\ data[Len(data)] = Ord("\r")
    THEN SubSeq(data, 1, Len(data) - 1)
    ELSE data

\* scanner.Scan() with bufio.ScanLines on the bytes not yet read, and
\* scanner.Text(): [ok, line, rest].  Scan is false at the end of the bytes
\* and on a line too long for the buffer.
Scan(data) ==
    LET newlines == {i \in 1..Len(data) : data[i] = Ord("\n")}
        end == IF newlines = {} THEN Len(data) + 1
               ELSE CHOOSE i \in newlines : \A j \in newlines : i <= j
    IN  IF data = << >> \/ end - 1 >= MaxScanTokenSize
        THEN [ok |-> FALSE, line |-> << >>, rest |-> data]
        ELSE [ok |-> TRUE, line |-> dropCR(SubSeq(data, 1, end - 1)),
              rest |-> SubSeq(data, end + 1, Len(data))]

----------------------------------------------------------------------------
(* The inputs the caller draws from.                                        *)

MaxLen   == 4    \* longest input drawn byte by byte
MaxCalls == 6    \* most NextToken calls the caller makes on one lexer
MaxStmts == 3    \* most statements in a generated sequence of statements
MaxDigits == 3   \* longest digit run drawn digit by digit
MaxBlock == 2    \* most statements in a generated block
MaxValid == 2    \* most statements in a generated valid program
MaxLines == 2    \* most lines the REPL is given

\* The lexemes joined into one source text, sep between neighbours.
RECURSIVE Join(_, _)
Join(lexemes, sep) ==
    IF lexemes = << >> THEN << >>
    ELSE IF Len(lexemes) = 1 THEN lexemes[1]
    ELSE lexemes[1] \o sep \o Join(Tail(lexemes), sep)

\* All sequences over S of length 0..n.
SeqsUpTo(S, n) == UNION {[1..k -> S] : k \in 0..n}

Space == Str(<<" ">>)

\* Bytes that take every branch of NextToken: the end marker 0, white space,
\* the two-character operators' bytes, a one-character operator, a letter, a
\* digit, an ASCII byte that starts no token, a byte above 127.
LexAlphabet ==
    {0, Ord(" "), Ord("="), Ord("!"), Ord("+"), Ord("a"), Ord("1"), Ord("@"), 233}

IdentNames == {Str(<<"a">>), Str(<<"x", "y">>)}

InfixOps ==
    {Str(<<"+">>), Str(<<"-">>), Str(<<"*">>), Str(<<"/">>), Str(<<"<">>),
     Str(<<">">>), Str(<<"=", "=">>), Str(<<"!", "=">>)}

PrefixOps == {Str(<<"!">>), Str(<<"-">>)}

\* The token kind of each operator lexeme.
OpKind ==
    (Str(<<"+">>) :> token_PLUS) @@ (Str(<<"-">>) :> token_MINUS)
    @@ (Str(<<"*">>) :> token_ASTERISK) @@ (Str(<<"/">>) :> token_SLASH)
    @@ (Str(<<"<">>) :> token_LT) @@ (Str(<<">">>) :> token_GT)
    @@ (Str(<<"=", "=">>) :> token_EQ) @@ (Str(<<"!", "=">>) :> token_NOT_EQ)
    @@ (Str(<<"!">>) :> token_BANG)

Seps == {<< >>, Space}

ByteCases == {[kind |-> "bytes", text |-> t] : t \in SeqsUpTo(LexAlphabet, MaxLen)}

\* a op1 b op2 c, and the same with one pair in parentheses
InfixCases ==
    {[kind |-> k, a |-> a, op1 |-> op1, b |-> b, op2 |-> op2, c |-> c, sep |-> sep,
      text |-> Join(CASE k = "a op1 b op2 c" -> <<a, op1, b, op2, c>>
                      [] k = "(a op1 b) op2 c" ->
                            <<Str(<<"(">>), a, op1, b, Str(<<")">>), op2, c>>
                      [] k = "a op1 (b op2 c)" ->
                            <<a, op1, Str(<<"(">>), b, op2, c, Str(<<")">>)>>,
                    sep)] :
        k \in {"a op1 b op2 c", "(a op1 b) op2 c", "a op1 (b op2 c)"},
        a \in IdentNames, b \in IdentNames, c \in IdentNames,
        op1 \in InfixOps, op2 \in InfixOps, sep \in Seps}

\* p a o b, and p q a
PrefixCases ==
    {[kind |-> "p a o b", p |-> p, a |-> a, o |-> o, b |-> b, sep |-> sep,
      text |-> Join(<<p, a, o, b>>, sep)] :
        p \in PrefixOps, a \in IdentNames, o \in InfixOps, b \in IdentNames,
        sep \in Seps}
    \cup
    {[kind |-> "p q a", p |-> p, q |-> q, a |-> a, sep |-> sep,
      text |-> Join(<<p, q, a>>, sep)] :
        p \in PrefixOps, q \in PrefixOps, a \in IdentNames, sep \in Seps}

\* Digits on both sides of 8, with and without a leading 0.
IntDigits == {Ord("0"), Ord("1"), Ord("7"), Ord("8"), Ord("9")}

\* Digit runs around 1<<63 - 1.
LongLiterals ==
    {Str(<<"9", "2", "2", "3", "3", "7", "2", "0", "3", "6", "8", "5",
           "4", "7", "7", "5", "8", "0", "7">>),
     Str(<<"9", "2", "2", "3", "3", "7", "2", "0", "3", "6", "8", "5",
           "4", "7", "7", "5", "8", "0", "8">>),
     Str(<<"0", "9", "2", "2", "3", "3", "7", "2", "0", "3", "6", "8", "5",
           "4", "7", "7", "5", "8", "0", "7">>),
     Str(<<"0", "7", "7", "7", "7", "7", "7", "7", "7", "7", "7", "7", "7",
           "7", "7", "7", "7", "7", "7", "7", "7", "7">>)}

\* One integer literal, as an expression statement with or without `;`.
IntCases ==
    {[kind |-> "int", lit |-> lit, text |-> lit \o end] :
        lit \in (SeqsUpTo(IntDigits, MaxDigits) \ {<< >>}) \cup LongLiterals,
        end \in {<< >>, Str(<<";">>)}}

\* The i-th identifier: a, b, c, ...
NameAt(i) == << 96 + i >>

\* The i-th integer literal: 1, 2, 3, ...
IntAt(i) == << Ord("0") + i >>

LetForms == {"let IDENT = INT;", "let IDENT INT;", "let = INT;", "let INT;"}

\* The statement of the given form that stands i-th in its source text.
LetText(form, i) ==
    CASE form = "let IDENT = INT;" ->
            Join(<<Str(<<"l", "e", "t">>), NameAt(i), Str(<<"=">>), IntAt(i)>>, Space)
                \o Str(<<";">>)
      [] form = "let IDENT INT;" ->
            Join(<<Str(<<"l", "e", "t">>), NameAt(i), IntAt(i)>>, Space) \o Str(<<";">>)
      [] form = "let = INT;" ->
            Join(<<Str(<<"l", "e", "t">>), Str(<<"=">>), IntAt(i)>>, Space)
                \o Str(<<";">>)
      [] form = "let INT;" ->
            Join(<<Str(<<"l", "e", "t">>), IntAt(i)>>, Space) \o Str(<<";">>)

\* Sequences of let statements, well formed or malformed.
LetCases ==
    {[kind |-> "lets", forms |-> forms,
      text |-> Join([i \in 1..Len(forms) |-> LetText(forms[i], i)], Str(<<"\n">>))] :
        forms \in SeqsUpTo(LetForms, MaxStmts) \ {<< >>}}

\* Conditions: an identifier, a comparison, a prefix expression in
\* parentheses, a boolean and arithmetic.
Conditions ==
    {Str(<<"x">>),
     Str(<<"x", " ", "<", " ", "y">>),
     Str(<<"(", "!", "x", ")">>),
     Str(<<"t", "r", "u", "e", "=", "=", "1", "+", "2", "*", "3">>)}

\* Expression statements of a block: with and without `;`, and a nested if.
BlockStatements ==
    {Str(<<"x">>),
     Str(<<"y", " ", "+", " ", "1", ";">>),
     Str(<<"!", "t", "r", "u", "e", ";">>),
     Str(<<"i", "f", "(", "y", ")", "{", "x", "}">>)}

\* "{ S }"
Braces(statements) ==
    Join(<<Str(<<"{">>)>> \o statements \o <<Str(<<"}">>)>>, Space)

\* if (C) { S1 }, and if (C) { S1 } else { S2 }
IfCases ==
    {[kind |-> "if", c |-> c, s1 |-> s1, hasElse |-> FALSE, s2 |-> << >>,
      text |-> Join(<<Str(<<"i", "f">>), Str(<<"(">>) \o c \o Str(<<")">>),
                      Braces(s1)>>, Space)] :
        c \in Conditions, s1 \in SeqsUpTo(BlockStatements, MaxBlock)}
    \cup
    {[kind |-> "if", c |-> c, s1 |-> s1, hasElse |-> TRUE, s2 |-> s2,
      text |-> Join(<<Str(<<"i", "f">>), Str(<<"(">>) \o c \o Str(<<")">>),
                      Braces(s1), Str(<<"e", "l", "s", "e">>), Braces(s2)>>, Space)] :
        c \in Conditions, s1 \in SeqsUpTo(BlockStatements, MaxBlock),
        s2 \in SeqsUpTo(BlockStatements, MaxBlock)}

\* Valid expressions: an identifier, a prefix expression, an infix expression
\* with a group, an if without `;` in its block, an if/else with `;` in its
\* blocks.
ValidExpressions ==
    {Str(<<"x">>),
     Str(<<"-", "5">>),
     Str(<<"(", "x", " ", "+", " ", "y", ")", " ", "*", " ", "2">>),
     Str(<<"i", "f", " ", "(", "a", ")", " ", "{", " ", "b", " ", "}">>),
     Str(<<"i", "f", " ", "(", "a", ")", " ", "{", " ", "b", ";", " ", "}", " ",
           "e", "l", "s", "e", " ", "{", " ", "c", ";", " ", "}">>)}

ValidForms == {"let IDENT = E;", "return E;", "E;", "E"}

\* The statement of the given form around the expression e.
ValidText(form, e) ==
    CASE form = "let IDENT = E;" ->
            Str(<<"l", "e", "t", " ", "v", " ", "=", " ">>) \o e \o Str(<<";">>)
      [] form = "return E;" ->
            Str(<<"r", "e", "t", "u", "r", "n", " ">>) \o e \o Str(<<";">>)
      [] form = "E;" -> e \o Str(<<";">>)
      [] form = "E" -> e

\* Sequences of valid statements.
ValidCases ==
    {[kind |-> "valid", stmts |-> stmts,
      text |-> Join([i \in 1..Len(stmts) |-> ValidText(stmts[i][1], stmts[i][2])],
                    Str(<<"\n">>))] :
        stmts \in SeqsUpTo(ValidForms \X ValidExpressions, MaxValid)}

\* Lexemes that reach every branch of the parser, and a byte no token has.
Lexemes ==
    {Str(<<"l", "e", "t">>), Str(<<"r", "e", "t", "u", "r", "n">>), Str(<<"i", "f">>),
     Str(<<"e", "l", "s", "e">>), Str(<<"x">>), Str(<<"0", "8">>), Str(<<"=">>),
     Str(<<"-">>), Str(<<"*">>), Str(<<"(">>), Str(<<")">>), Str(<<"{">>),
     Str(<<"}">>), Str(<<";">>), << 233 >>}

\* Well-formed statements, as sequences of lexemes.
Templates ==
    {<<Str(<<"l", "e", "t">>), Str(<<"x">>), Str(<<"=">>), Str(<<"5">>), Str(<<";">>)>>,
     <<Str(<<"r", "e", "t", "u", "r", "n">>), Str(<<"-">>), Str(<<"x">>), Str(<<";">>)>>,
     <<Str(<<"(">>), Str(<<"x">>), Str(<<"+">>), Str(<<"5">>), Str(<<")">>),
       Str(<<"*">>), Str(<<"!">>), Str(<<"t", "r", "u", "e">>)>>,
     <<Str(<<"i", "f">>), Str(<<"(">>), Str(<<"x">>), Str(<<")">>), Str(<<"{">>),
       Str(<<"x">>), Str(<<"}">>), Str(<<"e", "l", "s", "e">>), Str(<<"{">>),
       Str(<<"5">>), Str(<<"}">>)>>}

\* Every template cut off after any number of lexemes, with any one of the
\* lexemes left replaced by any lexeme or by nothing.
GarbledCases ==
    {[kind |-> "garbled", template |-> t, cut |-> k, at |-> i, by |-> x,
      text |-> Join([j \in 1..k |-> IF j = i THEN x ELSE t[j]], Space)] :
        <<t, k, i>> \in {<<t, k, i>> \in Templates \X (1..11) \X (1..11) :
                            i <= k /\ k <= Len(t)},
        x \in Lexemes \cup {<< >>}}

\* The seven keywords, and words that are none: other case, a keyword with a
\* letter more or less, with an underscore, the underscore alone.
Words ==
    {Str(<<"f", "n">>), Str(<<"l", "e", "t">>), Str(<<"t", "r", "u", "e">>),
     Str(<<"f", "a", "l", "s", "e">>), Str(<<"i", "f">>), Str(<<"e", "l", "s", "e">>),
     Str(<<"r", "e", "t", "u", "r", "n">>),
     Str(<<"L", "e", "t">>), Str(<<"l", "e", "t", "x">>), Str(<<"_">>),
     Str(<<"l", "e">>), Str(<<"f">>), Str(<<"i", "f", "f">>), Str(<<"_", "i", "f">>),
     Str(<<"e", "l", "s", "e", "_">>), Str(<<"r", "e", "_", "t", "u", "r", "n">>),
     Str(<<"A", "Z">>), Str(<<"f", "n", "Z">>), Str(<<"x">>)}

\* What stands before and after a word: nothing, white space, an operator, a
\* digit.
Around == {<< >>, Space, Str(<<"\n">>), Str(<<"(">>), Str(<<"=", "=">>), Str(<<"1">>)}

\* One word in its surroundings, and two words with white space between.
WordCases ==
    {[kind |-> "word", pre |-> pre, w |-> w, post |-> post,
      text |-> pre \o w \o post] : pre \in Around, w \in Words, post \in Around}
    \cup
    {[kind |-> "words", w |-> w, w2 |-> w2, text |-> w \o Space \o w2] :
        w \in Words, w2 \in Words}

\* Names of hand-built let statements.
AstNames ==
    {Identifier(Token(token_IDENT, Str(<<"x">>)), Str(<<"x">>)),
     Identifier(Token(token_IDENT, Str(<<"m", "y", "V", "a", "r">>)),
                Str(<<"m", "y", "V", "a", "r">>))}

\* Values of hand-built let and return statements: none, an identifier, an
\* integer, an infix expression.
AstValues ==
    {NIL,
     Identifier(Token(token_IDENT, Str(<<"a", "n", "o", "t", "h", "e", "r">>)),
                Str(<<"a", "n", "o", "t", "h", "e", "r">>)),
     IntegerLiteral(Token(token_INT, Str(<<"5">>)), << 5 >>),
     InfixExpression(Token(token_PLUS, Str(<<"+">>)),
                     Identifier(Token(token_IDENT, Str(<<"x">>)), Str(<<"x">>)),
                     Str(<<"+">>),
                     IntegerLiteral(Token(token_INT, Str(<<"5">>)), << 5 >>))}

\* Hand-built statements, each with the token of its keyword.
AstStatements ==
    {LetStatement(Token(token_LET, Str(<<"l", "e", "t">>)), name, value) :
        name \in AstNames, value \in AstValues}
    \cup
    {ReturnStatement(Token(token_RETURN, Str(<<"r", "e", "t", "u", "r", "n">>)), value) :
        value \in AstValues}
    \cup
    {ExpressionStatement(Token(token_IDENT, Str(<<"x">>)),
                         Identifier(Token(token_IDENT, Str(<<"x">>)), Str(<<"x">>)))}

\* Hand-built programs.
AstCases ==
    {[kind |-> "ast", text |-> << >>, program |-> Program(statements)] :
        statements \in SeqsUpTo(AstStatements, MaxStmts)}

\* The four white-space bytes and a byte of every kind of token.
ScanAlphabet ==
    {Ord(" "), Ord("\t"), Ord("\n"), Ord("\r"), Ord("="), Ord("!"), Ord(";"),
     Ord("a"), Ord("1"), Ord("@")}

ScanCases == {[kind |-> "scan", text |-> t] : t \in SeqsUpTo(ScanAlphabet, MaxLen)}

\* The lines the REPL is given, by name: empty, the two lines of the REPL's
\* tests (shortened), a line ending in a carriage return, a line with a zero
\* byte, white space only, and a line too long for the Scanner's buffer.
ReplLine ==
    [empty |-> << >>,
     let |-> Str(<<"l", "e", "t", " ", "x", " ", "=", " ", "5", ";">>),
     illegal |-> Str(<<"@", "!", "=">>),
     cr |-> Str(<<"a", "\r">>),
     nul |-> << Ord("x"), 0, Ord("y") >>,
     blank |-> Str(<<" ", "\t">>),
     long |-> [i \in 1..MaxScanTokenSize |-> Ord("x")]]

\* The bytes of the named lines, each ended by a newline; the last one only
\* when `ended` says so.
RECURSIVE LinesText(_, _)
LinesText(names, ended) ==
    IF names = << >> THEN << >>
    ELSE IF Len(names) = 1 /\ ~ended THEN ReplLine[names[1]]
    ELSE ReplLine[names[1]] \o Str(<<"\n">>) \o LinesText(Tail(names), ended)

\* Sequences of lines; the last line may lack its newline when it is not empty.
ReplCases ==
    {[kind |-> "repl", lines |-> names, ended |-> TRUE] :
        names \in SeqsUpTo(DOMAIN ReplLine, MaxLines)}
    \cup
    {[kind |-> "repl", lines |-> names, ended |-> FALSE] :
        names \in {ns \in SeqsUpTo(DOMAIN ReplLine, MaxLines) :
                        ns # << >> /\ dropCR(ReplLine[ns[Len(ns)]]) # << >>}}

\* Block bodies: let, return and expression statements with and without the
\* `;` before the closing brace.
BlockBodies ==
    {<< >>,
     Str(<<"b">>),
     Str(<<"b", ";">>),
     Str(<<"r", "e", "t", "u", "r", "n", " ", "b">>),
     Str(<<"r", "e", "t", "u", "r", "n", " ", "b", ";">>),
     Str(<<"l", "e", "t", " ", "x", " ", "=", " ", "5">>),
     Str(<<"l", "e", "t", " ", "x", " ", "=", " ", "5", ";">>),
     Str(<<"l", "e", "t", " ", "x", " ", "=", " ", "5", ";", " ", "b">>),
     Str(<<"b", ";", " ", "r", "e", "t", "u", "r", "n", " ", "b">>)}

\* What follows the consequence: nothing, an else block, a further statement.
BlockTails ==
    {<< >>,
     Str(<<"e", "l", "s", "e", " ", "{", " ", "c", " ", "}">>),
     Str(<<"e", "l", "s", "e", " ", "{", " ", "c", ";", " ", "}">>),
     Str(<<";", " ", "d", ";">>)}

\* if (a) { BODY } TAIL
BlockCases ==
    {[kind |-> "block", body |-> body, tail |-> tail,
      text |-> Join(<<Str(<<"i", "f", " ", "(", "a", ")">>), Braces(<<body>>), tail>>,
                    Space)] :
        body \in BlockBodies, tail \in BlockTails}

\* Let and return statements: well formed, with a token missing, and without
\* the closing `;`.
StatementForms ==
    {Str(<<"l", "e", "t", " ", "x", " ", "=", " ", "5", ";">>),
     Str(<<"l", "e", "t", " ", "x", " ", "5", ";">>),
     Str(<<"l", "e", "t", " ", "=", " ", "5", ";">>),
     Str(<<"l", "e", "t">>),
     Str(<<"l", "e", "t", " ", "x", " ", "=", " ", "y">>),
     Str(<<"r", "e", "t", "u", "r", "n", " ", "5", ";">>),
     Str(<<"r", "e", "t", "u", "r", "n", " ", "x">>),
     Str(<<"r", "e", "t", "u", "r", "n">>)}

\* Sequences of them.
StatementCases ==
    {[kind |-> "statements", forms |-> forms, text |-> Join(forms, Space)] :
        forms \in SeqsUpTo(StatementForms, MaxStmts) \ {<< >>}}

\* One lexeme of every token kind; the empty one stands for EOF.
KindLexemes ==
    {<< >>,
     Str(<<"@">>),
     Str(<<"x">>),
     Str(<<"5">>),
     Str(<<"=">>),
     Str(<<"+">>),
     Str(<<"-">>),
     Str(<<"!">>),
     Str(<<"*">>),
     Str(<<"/">>),
     Str(<<"<">>),
     Str(<<">">>),
     Str(<<",">>),
     Str(<<";">>),
     Str(<<"(">>),
     Str(<<")">>),
     Str(<<"{">>),
     Str(<<"}">>),
     Str(<<"f", "n">>),
     Str(<<"l", "e", "t">>),
     Str(<<"t", "r", "u", "e">>),
     Str(<<"f", "a", "l", "s", "e">>),
     Str(<<"i", "f">>),
     Str(<<"e", "l", "s", "e">>),
     Str(<<"r", "e", "t", "u", "r", "n">>),
     Str(<<"=", "=">>),
     Str(<<"!", "=">>)}

\* What stands before and after the lexeme: it starts a statement, follows an
\* expression, is the operand of an infix or prefix operator, stands in
\* parentheses.
KindContexts ==
    {<<<< >>, << >>>>,
     <<<< >>, <<Str(<<";">>)>>>>,
     <<<<Str(<<"x">>)>>, << >>>>,
     <<<<Str(<<"x">>)>>, <<Str(<<"y">>)>>>>,
     <<<<Str(<<"x">>)>>, <<Str(<<"y">>), Str(<<")">>)>>>>,
     <<<<Str(<<"x">>), Str(<<"+">>)>>, << >>>>,
     <<<<Str(<<"-">>)>>, << >>>>,
     <<<<Str(<<"(">>)>>, <<Str(<<")">>)>>>>,
     <<<<Str(<<"x">>), Str(<<"+">>), Str(<<"y">>)>>, <<Str(<<"z">>)>>>>,
     <<<<Str(<<"x">>), Str(<<"+">>)>>, <<Str(<<";">>), Str(<<"y">>)>>>>,
     <<<<Str(<<"x">>), Str(<<"+">>)>>, <<Str(<<")">>)>>>>}

KindCases ==
    {[kind |-> "kinds", lexeme |-> w, context |-> c,
      text |-> Join(c[1] \o <<w>> \o c[2], Space)] :
        w \in KindLexemes, c \in KindContexts}

\* Operands: an identifier, integer literals (one with a leading zero) and
\* the booleans.
Operands == {Str(<<"x">>), Str(<<"5">>), Str(<<"0", "1", "0">>), Str(<<"t", "r", "u", "e">>), Str(<<"f", "a", "l", "s", "e">>)}

\* Well-formed expressions over the operands a, b, c: one operand, prefix and
\* infix operators, parentheses that follow the precedences and that
\* override them, parentheses inside parentheses.
ExpressionTexts(a, b, c) ==
    {Join(lexemes, Space) :
        lexemes \in
            {<<a>>, <<Str(<<"(">>), Str(<<"(">>), a, Str(<<")">>), Str(<<")">>)>>}
            \cup {<<p, a>> : p \in PrefixOps}
            \cup {<<p, q, a>> : p \in PrefixOps, q \in PrefixOps}
            \cup {<<a, o, b>> : o \in InfixOps}
            \cup {<<p, Str(<<"(">>), a, o, b, Str(<<")">>)>> : p \in PrefixOps, o \in InfixOps}
            \cup {<<a, o1, b, o2, c>> : o1 \in InfixOps, o2 \in InfixOps}
            \cup {<<Str(<<"(">>), a, o1, b, Str(<<")">>), o2, c>> : o1 \in InfixOps, o2 \in InfixOps}
            \cup {<<a, o1, Str(<<"(">>), b, o2, c, Str(<<")">>)>> : o1 \in InfixOps, o2 \in InfixOps}}

\* One expression statement, with or without `;`.
RoundTripCases ==
    {[kind |-> "round trip", text |-> e \o end] :
        e \in UNION {ExpressionTexts(abc[1], abc[2], abc[3]) :
                        abc \in {<<Str(<<"x">>), Str(<<"5">>), Str(<<"t", "r", "u", "e">>)>>, <<Str(<<"0", "1", "0">>), Str(<<"x">>), Str(<<"f", "a", "l", "s", "e">>)>>, <<Str(<<"t", "r", "u", "e">>), Str(<<"f", "a", "l", "s", "e">>), Str(<<"x">>)>>, <<Str(<<"5">>), Str(<<"0", "1", "0">>), Str(<<"5">>)>>}},
        end \in {<< >>, Str(<<";">>)}}

----------------------------------------------------------------------------
(* The caller: lexer.New(input), then either NextToken calls on the lexer,  *)
(* or parser.New(lexer), ParseProgram (one action per iteration of its      *)
(* loop) and Program.String().                                              *)

ZeroLexer ==
    [input |-> << >>, currentChar |-> 0, currentPos |-> 0, nextPos |-> 0,
     panicked |-> FALSE]

ZeroParser ==
    [lexer |-> ZeroLexer, current |-> ZeroToken, peek |-> ZeroToken,
     errors |-> << >>, panicked |-> FALSE, advances |-> 0, log |-> << >>]

InitWith(cases) ==
    /\ tc \in cases
    /\ stdin = << >>
    /\ stdout = << >>
    /\ input = tc.text
    /\ lexer = ZeroLexer
    /\ prev = ZeroLexer
    /\ tok = ZeroToken
    /\ calls = 0
    /\ parser = ZeroParser
    /\ program = NIL
    /\ rendered = Written(<< >>)
    /\ pc = "start"

LexerNew ==
    /\ pc = "start"
    /\ lexer' = lexer_New(input)
    /\ pc' = "lexer"
    /\ UNCHANGED <<stdin, stdout, input, tc, prev, tok, calls, parser, program, rendered>>

CallNextToken ==
    /\ pc \in {"lexer", "tokens"}
    /\ calls < MaxCalls
    /\ ~lexer.panicked
    /\ prev' = lexer
    /\ LET returned(r) == lexer' = r.l /\ tok' = r.tok
       IN  returned(NextToken(lexer))
    /\ calls' = calls + 1
    /\ pc' = "tokens"
    /\ UNCHANGED <<stdin, stdout, input, tc, parser, program, rendered>>

ParserNew ==
    /\ pc = "lexer"
    /\ parser' = parser_New(lexer)
    /\ lexer' = parser'.lexer
    /\ pc' = "parser"
    /\ UNCHANGED <<stdin, stdout, input, tc, prev, tok, calls, program, rendered>>

ParseProgramEnter ==
    /\ pc = "parser"
    /\ ~Panicked(parser)
    /\ program' = Program(<< >>)
    /\ pc' = "parsing"
    /\ UNCHANGED <<stdin, stdout, input, tc, lexer, prev, tok, calls, parser, rendered>>

ParseProgramIterate ==
    /\ pc = "parsing"
    /\ ~Panicked(parser)
    /\ ~tokenIs(parser.current, token_EOF)
    /\ LET done(r) == parser' = r.p /\ program' = r.val
       IN  done(ParseProgramBody(parser, program))
    /\ lexer' = parser'.lexer
    /\ UNCHANGED <<stdin, stdout, input, tc, prev, tok, calls, rendered, pc>>

ParseProgramReturn ==
    /\ pc = "parsing"
    /\ ~Panicked(parser)
    /\ tokenIs(parser.current, token_EOF)
    /\ pc' = "parsed"
    /\ UNCHANGED <<stdin, stdout, input, tc, lexer, prev, tok, calls, parser, program, rendered>>

CallString ==
    /\ pc = "parsed"
    /\ rendered' = Program_String(program)
    /\ pc' = "rendered"
    /\ UNCHANGED <<stdin, stdout, input, tc, lexer, prev, tok, calls, parser, program>>

Next ==
    \/ LexerNew
    \/ CallNextToken
    \/ ParserNew
    \/ ParseProgramEnter
    \/ ParseProgramIterate
    \/ ParseProgramReturn
    \/ CallString

\* Source texts drawn byte by byte.
InitLex == InitWith(ByteCases)
SpecLex == InitLex /\ [][Next]_vars

\* Expressions of identifiers, prefix and infix operators and parentheses.
InitExpr == InitWith(InfixCases \cup PrefixCases)
SpecExpr == InitExpr /\ [][Next]_vars

\* Integer literals.
InitInt == InitWith(IntCases)
SpecInt == InitInt /\ [][Next]_vars

\* Sequences of let statements.
InitLet == InitWith(LetCases)
SpecLet == InitLet /\ [][Next]_vars

\* If expressions.
InitIf == InitWith(IfCases)
SpecIf == InitIf /\ [][Next]_vars

\* Syntactically valid programs.
InitValid == InitWith(ValidCases)
SpecValid == InitValid /\ [][Next]_vars

\* Any bytes: texts drawn byte by byte, and garbled statements.
Init == InitWith(ByteCases \cup GarbledCases)
Spec == Init /\ [][Next]_vars

\* Words: keywords and identifiers.
InitWords == InitWith(WordCases)
SpecWords == InitWords /\ [][Next]_vars

\* A hand-built program, ready to be rendered.
InitString ==
    /\ tc \in AstCases
    /\ stdin = << >>
    /\ stdout = << >>
    /\ input = tc.text
    /\ lexer = ZeroLexer
    /\ prev = ZeroLexer
    /\ tok = ZeroToken
    /\ calls = 0
    /\ parser = ZeroParser
    /\ program = tc.program
    /\ rendered = Written(<< >>)
    /\ pc = "parsed"

SpecString == InitString /\ [][CallString]_vars

\* ASCII texts with white space of every kind.
InitScan == InitWith(ScanCases)
SpecScan == InitScan /\ [][Next]_vars

\* Blocks whose braces match.
InitBlock == InitWith(BlockCases)
SpecBlock == InitBlock /\ [][Next]_vars

\* Sequences of let and return statements.
InitStatements == InitWith(StatementCases)
SpecStatements == InitStatements /\ [][Next]_vars

\* A token of every kind in every position of an expression.
InitKinds == InitWith(KindCases)
SpecKinds == InitKinds /\ [][Next]_vars

\* Well-formed expression statements.
InitRoundTrip == InitWith(RoundTripCases)
SpecRoundTrip == InitRoundTrip /\ [][Next]_vars

----------------------------------------------------------------------------
(* repl.Start(in, out), one action per step of its two loops.               *)

InitRepl ==
    /\ tc \in ReplCases
    /\ stdin = LinesText(tc.lines, tc.ended)
    /\ stdout = << >>
    /\ input = << >>
    /\ lexer = ZeroLexer
    /\ prev = ZeroLexer
    /\ tok = ZeroToken
    /\ calls = 0
    /\ parser = ZeroParser
    /\ program = NIL
    /\ rendered = Written(<< >>)
    /\ pc = "prompt"

\* fmt.Fprint(out, PROMPT)
StartPrompt ==
    /\ pc = "prompt"
    /\ stdout' = Append(stdout, Fprint(PROMPT))
    /\ pc' = "scan"
    /\ UNCHANGED <<stdin, input, tc, lexer, prev, tok, calls, parser, program, rendered>>

\* scanned := scanner.Scan(); if !scanned { return }
StartReturn ==
    /\ pc = "scan"
    /\ ~Scan(stdin).ok
    /\ pc' = "returned"
    /\ UNCHANGED <<stdin, stdout, input, tc, lexer, prev, tok, calls, parser, program,
                   rendered>>

\* line := scanner.Text(); l := lexer.New(line)
StartLine ==
    /\ pc = "scan"
    /\ LET scanned(r) ==
            /\ r.ok
            /\ stdin' = r.rest
            /\ input' = r.line
            /\ lexer' = lexer_New(r.line)
       IN  scanned(Scan(stdin))
    /\ pc' = "lex"
    /\ UNCHANGED <<stdout, tc, prev, tok, calls, parser, program, rendered>>

\* tok = l.NextToken(), in the for clause
StartNextToken ==
    /\ pc = "lex"
    /\ ~lexer.panicked
    /\ prev' = lexer
    /\ LET returned(r) == lexer' = r.l /\ tok' = r.tok
       IN  returned(NextToken(lexer))
    /\ pc' = "test"
    /\ UNCHANGED <<stdin, stdout, input, tc, calls, parser, program, rendered>>

\* tok.Type != token.EOF: fmt.Fprintf(out, "%+v\n", tok)
StartPrint ==
    /\ pc = "test"
    /\ tok.Type # token_EOF
    /\ stdout' = Append(stdout, Sprintf("%+v\n", << tok >>))
    /\ pc' = "lex"
    /\ UNCHANGED <<stdin, input, tc, lexer, prev, tok, calls, parser, program, rendered>>

\* tok.Type == token.EOF: the inner loop ends, the outer one goes on
StartEndOfLine ==
    /\ pc = "test"
    /\ tok.Type = token_EOF
    /\ pc' = "prompt"
    /\ UNCHANGED <<stdin, stdout, input, tc, lexer, prev, tok, calls, parser, program,
                   rendered>>

NextRepl ==
    \/ StartPrompt
    \/ StartReturn
    \/ StartLine
    \/ StartNextToken
    \/ StartPrint
    \/ StartEndOfLine

SpecRepl == InitRepl /\ [][NextRepl]_vars

----------------------------------------------------------------------------
(* What the claims expect, written without the parser.                      *)

\* The precedence ladder as the specification tabulates it.
LadderPrecedence(op) ==
    CASE op \in {Str(<<"=", "=">>), Str(<<"!", "=">>)} -> 2
      [] op \in {Str(<<"<">>), Str(<<">">>)} -> 3
      [] op \in {Str(<<"+">>), Str(<<"-">>)} -> 4
      [] op \in {Str(<<"*">>), Str(<<"/">>)} -> 5

\* "(l op r)"
Paren(l, op, r) == Str(<<"(">>) \o l \o Space \o op \o Space \o r \o Str(<<")">>)

\* "(op r)"
ParenPrefix(op, r) == Str(<<"(">>) \o op \o r \o Str(<<")">>)

IdentNode(a) == Identifier(Token(token_IDENT, a), a)

InfixNode(l, op, r) == InfixExpression(Token(OpKind[op], op), l, op, r)

Finished == pc \in {"parsed", "rendered"}

----------------------------------------------------------------------------
(* C1 *)

\* C1: for every input `a op1 b op2 c` (identifiers a, b, c; op1, op2 among the
\* eight infix operators) ParseProgram records no error and Program.String()
\* is ((a op1 b) op2 c) when precedence(op1) >= precedence(op2) and
\* (a op1 (b op2 c)) otherwise; equal precedences group to the left.
C1_InfixGrouping ==
    tc.kind = "a op1 b op2 c" =>
        /\ Finished => parser.errors = << >>
        /\ pc = "rendered" =>
            /\ ~rendered.panic
            /\ rendered.out =
                IF LadderPrecedence(tc.op1) >= LadderPrecedence(tc.op2)
                THEN Paren(Paren(tc.a, tc.op1, tc.b), tc.op2, tc.c)
                ELSE Paren(tc.a, tc.op1, Paren(tc.b, tc.op2, tc.c))

\* Two different operators of equal precedence were parsed and rendered.
C1_Witness ==
    /\ pc = "rendered"
    /\ tc.kind = "a op1 b op2 c"
    /\ tc.op1 # tc.op2
    /\ LadderPrecedence(tc.op1) = LadderPrecedence(tc.op2)
    /\ rendered.out = Paren(Paren(tc.a, tc.op1, tc.b), tc.op2, tc.c)

----------------------------------------------------------------------------
(* C2 *)

\* The returns of parseIntegerLiteral in the log.
IntegerReturns ==
    {i \in 1..Len(parser.log) : parser.log[i].fn = "parseIntegerLiteral"}

\* C2: on an INT token whose digit run has a base-10 value of at most
\* 2^63 - 1, leading zeros allowed, parseIntegerLiteral records no error and
\* returns the IntegerLiteral of that token whose value is the base-10 value.
C2_Base10Value ==
    \A i \in IntegerReturns :
        LET e == parser.log[i] IN
        /\ e.current0.Type = token_INT
        /\ ValueLeq(DigitsValue(e.current0.Literal, 10), MaxInt64)
        => /\ e.errors = e.errors0
           /\ e.val = IntegerLiteral(e.current0,
                                     DigitsValue(e.current0.Literal, 10))

----------------------------------------------------------------------------
(* C3 *)

\* C3: after ParseProgram on a syntactically valid input (let, return and
\* expression statements over identifiers, integers, booleans, prefix and
\* infix operators, groups and if/else with blocks) Errors() is empty.
C3_ValidNoErrors ==
    tc.kind = "valid" /\ Finished => Errors(parser) = << >>

----------------------------------------------------------------------------
(* C4 *)

\* The positions 1..n as a sequence.
Positions(n) == [i \in 1..n |-> i]

\* The error a malformed let statement is expected to leave.
LetError(form) ==
    CASE form = "let IDENT INT;" ->
            Sprintf("expected next token to be %s, got %s instead",
                    << token_ASSIGN, token_INT >>)
      [] form = "let = INT;" ->
            Sprintf("expected next token to be %s, got %s instead",
                    << token_IDENT, token_ASSIGN >>)
      [] form = "let INT;" ->
            Sprintf("expected next token to be %s, got %s instead",
                    << token_IDENT, token_INT >>)

\* C4: on a sequence of `;`-terminated let statements, each well formed or
\* lacking its identifier or its `=`, ParseProgram reaches the end of the input
\* without a fault, records exactly one "expected next token to be ..., got ...
\* instead" error per malformed statement, in source order, and the program
\* holds exactly the well-formed let statements, in source order.
C4_LetRecovery ==
    tc.kind = "lets" =>
        LET wellFormed(i) == tc.forms[i] = "let IDENT = INT;"
            malformed(i) == ~wellFormed(i)
            good == SelectSeq(Positions(Len(tc.forms)), wellFormed)
            bad == SelectSeq(Positions(Len(tc.forms)), malformed)
        IN  /\ ~Panicked(parser)
            /\ pc = "parsing" => Len(parser.errors) + Len(program.Statements)
                                    <= Len(tc.forms)
            /\ Finished =>
                /\ parser.current = Token(token_EOF, << >>)
                /\ parser.errors = [k \in 1..Len(bad) |-> LetError(tc.forms[bad[k]])]
                /\ program.Statements =
                    [k \in 1..Len(good) |->
                        LetStatement(Token(token_LET, Str(<<"l", "e", "t">>)),
                                     Identifier(Token(token_IDENT, NameAt(good[k])),
                                                NameAt(good[k])),
                                     NIL)]

\* A well-formed statement between two malformed ones was parsed: two errors
\* and the one statement.
C4_Witness ==
    /\ pc = "parsed"
    /\ tc.kind = "lets"
    /\ tc.forms = << "let IDENT INT;", "let IDENT = INT;", "let INT;" >>
    /\ Len(parser.errors) = 2
    /\ Len(program.Statements) = 1

----------------------------------------------------------------------------
(* C5 *)

\* The returns in the log that report a failure: nil from a parse method,
\* false from advanceIfPeekIs.
FailedReturns ==
    {i \in 1..Len(parser.log) :
        IF parser.log[i].fn = "advanceIfPeekIs" THEN ~parser.log[i].val
        ELSE parser.log[i].val = NIL}

\* C5: on any input bytes lexer.New, parser.New and ParseProgram complete
\* without a runtime fault, and every failure a parse method reports has added
\* an entry to the error list.
C5_NoRuntimeFault ==
    /\ ~lexer.panicked
    /\ ~Panicked(parser)
    /\ \A i \in FailedReturns : parser.log[i].errors > parser.log[i].errors0

\* ParseProgram returned on an if expression cut off inside its block, having
\* recorded an error.
C5_Witness ==
    /\ pc = "parsed"
    /\ tc.kind = "garbled"
    /\ tc.template[1] = Str(<<"i", "f">>)
    /\ tc.cut \in 5..6
    /\ FailedReturns # {}
    /\ Errors(parser) # << >>

----------------------------------------------------------------------------
(* C6 *)

\* C6: a prefix operator binds tighter than every infix operator: `p a o b`
\* parses without error to ((pa) o b), and `p q a` to (p(qa)).
C6_PrefixBindsTighter ==
    /\ tc.kind \in {"p a o b", "p q a"} /\ Finished => parser.errors = << >>
    /\ tc.kind = "p a o b" /\ pc = "rendered" =>
        /\ ~rendered.panic
        /\ rendered.out = Paren(ParenPrefix(tc.p, tc.a), tc.o, tc.b)
    /\ tc.kind = "p q a" /\ pc = "rendered" =>
        /\ ~rendered.panic
        /\ rendered.out = ParenPrefix(tc.p, ParenPrefix(tc.q, tc.a))

\* A prefix minus before a product was rendered, and a nested prefix was.
C6_Witness ==
    /\ pc = "rendered"
    /\ tc.kind = "p a o b"
    /\ tc.p = Str(<<"-">>)
    /\ tc.o = Str(<<"*">>)
    /\ rendered.out = Paren(ParenPrefix(tc.p, tc.a), tc.o, tc.b)

----------------------------------------------------------------------------
(* C7 *)

\* The returns of parseGroupedExpression in the log.
GroupedReturns ==
    {i \in 1..Len(parser.log) : parser.log[i].fn = "parseGroupedExpression"}

\* C7: parentheses override precedence and leave no node of their own:
\* `(a op1 b) op2 c` is the tree ((a op1 b) op2 c) and `a op1 (b op2 c)` the
\* tree (a op1 (b op2 c)) whatever the precedences, rendered so and with no
\* error; parseGroupedExpression returns exactly the inner expression and
\* leaves current on the `)`.
C7_ParenthesesOverride ==
    /\ tc.kind = "(a op1 b) op2 c" /\ Finished =>
        LET inner == InfixNode(IdentNode(tc.a), tc.op1, IdentNode(tc.b)) IN
        /\ parser.errors = << >>
        /\ program = Program(<< ExpressionStatement(
                        Token(token_LPAREN, Str(<<"(">>)),
                        InfixNode(inner, tc.op2, IdentNode(tc.c))) >>)
        /\ Cardinality(GroupedReturns) = 1
        /\ \A i \in GroupedReturns :
            /\ parser.log[i].val = inner
            /\ parser.log[i].current = Token(token_RPAREN, Str(<<")">>))
        /\ pc = "rendered" =>
            /\ ~rendered.panic
            /\ rendered.out = Paren(Paren(tc.a, tc.op1, tc.b), tc.op2, tc.c)
    /\ tc.kind = "a op1 (b op2 c)" /\ Finished =>
        LET inner == InfixNode(IdentNode(tc.b), tc.op2, IdentNode(tc.c)) IN
        /\ parser.errors = << >>
        /\ program = Program(<< ExpressionStatement(
                        Token(token_IDENT, tc.a),
                        InfixNode(IdentNode(tc.a), tc.op1, inner)) >>)
        /\ Cardinality(GroupedReturns) = 1
        /\ \A i \in GroupedReturns :
            /\ parser.log[i].val = inner
            /\ parser.log[i].current = Token(token_RPAREN, Str(<<")">>))
        /\ pc = "rendered" =>
            /\ ~rendered.panic
            /\ rendered.out = Paren(tc.a, tc.op1, Paren(tc.b, tc.op2, tc.c))

\* Parentheses went against the precedences: a sum in parentheses times c, and
\* a product whose right operand is a sum in parentheses.
C7_Witness ==
    /\ pc = "rendered"
    /\ GroupedReturns # {}
    /\ \/ /\ tc.kind = "(a op1 b) op2 c"
          /\ tc.op1 = Str(<<"+">>) /\ tc.op2 = Str(<<"*">>)
          /\ rendered.out = Paren(Paren(tc.a, tc.op1, tc.b), tc.op2, tc.c)
       \/ /\ tc.kind = "a op1 (b op2 c)"
          /\ tc.op1 = Str(<<"*">>) /\ tc.op2 = Str(<<"+">>)
          /\ rendered.out = Paren(tc.a, tc.op1, Paren(tc.b, tc.op2, tc.c))

----------------------------------------------------------------------------
(* C8 *)

\* The parser and program ParseProgram leaves on the source text given alone.
ParseOf(text) == ParseProgram(parser_New(lexer_New(text)))

\* The statements of the statements' texts, each parsed alone.
StatementsOf(texts) ==
    [i \in 1..Len(texts) |-> ParseOf(texts[i]).val.Statements[1]]

\* C8: `if (C) { S1 }` and `if (C) { S1 } else { S2 }`, C a well-formed
\* expression and S1, S2 well-formed expression statements, parse without
\* error to one ExpressionStatement holding an IfExpression whose condition is
\* the parse of C, whose consequence holds exactly the statements of S1, and
\* whose alternative is nil exactly when there is no else and otherwise holds
\* exactly the statements of S2.
C8_IfElseStructure ==
    tc.kind = "if" /\ Finished =>
        /\ parser.errors = << >>
        /\ Len(program.Statements) = 1
        /\ LET stmt == program.Statements[1]
               if == stmt.Expression
           IN  /\ stmt.node = "ExpressionStatement"
               /\ if.node = "IfExpression"
               /\ if.Condition = ParseOf(tc.c).val.Statements[1].Expression
               /\ if.Consequence.node = "BlockStatement"
               /\ if.Consequence.Statements = StatementsOf(tc.s1)
               /\ (if.Alternative = NIL) <=> ~tc.hasElse
               /\ tc.hasElse =>
                    /\ if.Alternative.node = "BlockStatement"
                    /\ if.Alternative.Statements = StatementsOf(tc.s2)

\* An if with two statements in its consequence and an else of other
\* statements was parsed.
C8_Witness ==
    /\ pc = "parsed"
    /\ tc.kind = "if"
    /\ tc.hasElse
    /\ Len(tc.s1) = 2
    /\ tc.s2 # << >>
    /\ tc.s1[1] # tc.s2[1]
    /\ Len(program.Statements[1].Expression.Consequence.Statements) = 2
    /\ program.Statements[1].Expression.Alternative.Statements = StatementsOf(tc.s2)

----------------------------------------------------------------------------
(* C9 *)

\* The last direct NextToken call returned.
Returned == pc = "tokens" /\ calls > 0 /\ ~lexer.panicked

\* C9: the literal of every non-EOF token NextToken returns is input[s:e], s
\* being currentPos after the white space was skipped and e currentPos when
\* the call returns; for an ILLEGAL token that is the one offending byte.
C9_LiteralIsSlice ==
    Returned /\ tok.Type # token_EOF =>
        /\ tok.Literal = Slice(input, skipWhitespace(prev).currentPos,
                               lexer.currentPos).val
        /\ tok.Type = token_ILLEGAL => Len(tok.Literal) = 1

----------------------------------------------------------------------------
(* C10 *)

\* C10: a NextToken call that begins with currentPos >= len(input) returns
\* Token{EOF, ""} and leaves currentChar = 0 (and currentPos >= len(input), so
\* that the same holds for the call after it).
C10_EofForever ==
    pc = "tokens" /\ calls > 0 /\ prev.currentPos >= Len(input) =>
        /\ ~lexer.panicked
        /\ tok = Token(token_EOF, << >>)
        /\ lexer.currentChar = 0
        /\ lexer.currentPos >= Len(input)

\* NextToken was called again after it had returned EOF at the end of a
\* non-empty input, and returned EOF again.
C10_Witness ==
    /\ pc = "tokens"
    /\ calls >= 3
    /\ Len(input) > 0
    /\ prev.currentPos > Len(input)
    /\ tok = Token(token_EOF, << >>)
    /\ lexer.currentChar = 0

----------------------------------------------------------------------------
(* C11 *)

\* The outcome of the last NextToken call on a one- or two-byte operator:
\* the token two(ch)= over two bytes when `=` follows, else one(ch) over one.
OneOrTwo(ch, oneType, twoType) ==
    LET s == skipWhitespace(prev).currentPos
        followedByEq == s + 1 < Len(input) /\ input[s + 2] = Ord("=")
    IN  IF followedByEq
        THEN /\ tok = Token(twoType, << ch, Ord("=") >>)
             /\ lexer.currentPos = s + 2
        ELSE /\ tok = Token(oneType, << ch >>)
             /\ lexer.currentPos = s + 1

\* The tokens the first three calls are expected to return on the text.
LexesAs(text, first, second, third) ==
    input = text /\ Returned =>
        /\ calls = 1 => tok = first
        /\ calls = 2 => tok = second
        /\ calls = 3 => tok = third

\* C11: on `=` (on `!`) NextToken returns EQ `==` (NOT_EQ `!=`) and consumes
\* two bytes exactly when the next input byte is `=`, and otherwise ASSIGN `=`
\* (BANG `!`) and consumes one; so `===` is EQ, ASSIGN, `!==` is NOT_EQ,
\* ASSIGN, and `= =` is ASSIGN, ASSIGN.
C11_TwoCharOperators ==
    /\ Returned /\ skipWhitespace(prev).currentChar = Ord("=") =>
            OneOrTwo(Ord("="), token_ASSIGN, token_EQ)
    /\ Returned /\ skipWhitespace(prev).currentChar = Ord("!") =>
            OneOrTwo(Ord("!"), token_BANG, token_NOT_EQ)
    /\ LexesAs(Str(<<"=", "=", "=">>), Token(token_EQ, Str(<<"=", "=">>)),
               Token(token_ASSIGN, Str(<<"=">>)), Token(token_EOF, << >>))
    /\ LexesAs(Str(<<"!", "=", "=">>), Token(token_NOT_EQ, Str(<<"!", "=">>)),
               Token(token_ASSIGN, Str(<<"=">>)), Token(token_EOF, << >>))
    /\ LexesAs(Str(<<"=", " ", "=">>), Token(token_ASSIGN, Str(<<"=">>)),
               Token(token_ASSIGN, Str(<<"=">>)), Token(token_EOF, << >>))

\* The second call on `!==` returned the ASSIGN left after the NOT_EQ.
C11_Witness ==
    /\ Returned
    /\ input = Str(<<"!", "=", "=">>)
    /\ calls = 2
    /\ tok = Token(token_ASSIGN, Str(<<"=">>))
    /\ lexer.currentPos = 3

----------------------------------------------------------------------------
(* C12 *)

\* A letter or the underscore.
WordByte(b) == b \in (65..90) \cup (97..122) \cup {95}

\* The run of letters and underscores of the input from offset i on.
RECURSIVE WordFrom(_)
WordFrom(i) ==
    IF i < Len(input) /\ WordByte(input[i + 1])
    THEN << input[i + 1] >> \o WordFrom(i + 1)
    ELSE << >>

\* The kind the keyword table gives a word.
KindOf(w) ==
    CASE w = Str(<<"f", "n">>) -> token_FUNCTION
      [] w = Str(<<"l", "e", "t">>) -> token_LET
      [] w = Str(<<"t", "r", "u", "e">>) -> token_TRUE
      [] w = Str(<<"f", "a", "l", "s", "e">>) -> token_FALSE
      [] w = Str(<<"i", "f">>) -> token_IF
      [] w = Str(<<"e", "l", "s", "e">>) -> token_ELSE
      [] w = Str(<<"r", "e", "t", "u", "r", "n">>) -> token_RETURN
      [] OTHER -> token_IDENT

\* C12: a NextToken call that finds a letter or underscore after the white
\* space stands at the start of a maximal run w of letters and underscores and
\* returns one token with literal w, ending behind the run, whose kind is the
\* keyword's when w is exactly one of the seven keywords and IDENT otherwise.
C12_KeywordOrIdent ==
    /\ Returned /\ WordByte(skipWhitespace(prev).currentChar) =>
        LET s == skipWhitespace(prev).currentPos
            w == WordFrom(s)
        IN  /\ s = 0 \/ ~WordByte(input[s])
            /\ tok = Token(KindOf(w), w)
            /\ lexer.currentPos = s + Len(w)
    /\ Returned /\ tc.kind = "word" /\ tc.pre \in {<< >>, Space, Str(<<"\n">>)}
        /\ calls = 1 => tok = Token(KindOf(tc.w), tc.w)
    /\ Returned /\ tc.kind = "words" =>
        /\ calls = 1 => tok = Token(KindOf(tc.w), tc.w)
        /\ calls = 2 => tok = Token(KindOf(tc.w2), tc.w2)

\* `letx` after `let` was returned as IDENT, and `else_` as IDENT.
C12_Witness ==
    /\ Returned
    /\ tc.kind = "words"
    /\ calls = 2
    /\ tc.w = Str(<<"l", "e", "t">>)
    /\ tc.w2 \in {Str(<<"l", "e", "t", "x">>), Str(<<"e", "l", "s", "e", "_">>)}
    /\ tok = Token(token_IDENT, tc.w2)

----------------------------------------------------------------------------
(* C13 *)

\* The returns of parseStatement in the log.
StatementReturns ==
    {i \in 1..Len(parser.log) : parser.log[i].fn = "parseStatement"}

\* Those of the calls ParseProgram made: a call made inside a block began
\* after the top-level call around it, which returns later.
TopLevelReturns ==
    {i \in StatementReturns :
        \A j \in StatementReturns :
            j > i => parser.log[j].advances0 > parser.log[i].advances0}

\* The elements of S, a set of numbers, in increasing order.
RECURSIVE Sorted(_)
Sorted(S) ==
    IF S = {} THEN << >>
    ELSE LET least == CHOOSE x \in S : \A y \in S : x <= y
         IN  << least >> \o Sorted(S \ {least})

\* C13: program.Statements is, in source order, exactly the non-nil results of
\* ParseProgram's parseStatement calls: it holds no nil, an expression
\* statement whose expression is nil is kept, and a statement is left out only
\* when it is a let statement that lacks its identifier or its `=`.
C13_StatementsAreNonNilResults ==
    pc \in {"parsing", "parsed", "rendered"} =>
        LET kept == Sorted({i \in TopLevelReturns : parser.log[i].val # NIL})
        IN  /\ program.Statements = [k \in 1..Len(kept) |-> parser.log[kept[k]].val]
            /\ \A k \in 1..Len(program.Statements) : program.Statements[k] # NIL
            /\ \A i \in TopLevelReturns :
                LET e == parser.log[i] IN
                /\ e.val # NIL /\ e.current0.Type \notin {token_LET, token_RETURN} =>
                        e.val.node = "ExpressionStatement"
                /\ e.val = NIL =>
                    /\ e.current0.Type = token_LET
                    /\ e.errors = e.errors0 + 1
                    /\ parser.errors[e.errors].format
                            = "expected next token to be %s, got %s instead"
                    /\ parser.errors[e.errors].args[1] \in {token_IDENT, token_ASSIGN}

\* ParseProgram returned a program that lacks a let statement without its
\* identifier and keeps an expression statement whose expression is nil.
C13_Witness ==
    /\ pc = "parsed"
    /\ \E i \in TopLevelReturns : parser.log[i].val = NIL
    /\ \E k \in 1..Len(program.Statements) :
        /\ program.Statements[k].node = "ExpressionStatement"
        /\ program.Statements[k].Expression = NIL
    /\ \E k \in 1..Len(program.Statements) :
        /\ program.Statements[k].node = "ExpressionStatement"
        /\ program.Statements[k].Expression # NIL

----------------------------------------------------------------------------
(* C14 *)

\* The rendering of a value slot: empty when the slot is nil.
ValueText(value) == IF value = NIL THEN << >> ELSE String(value).out

\* The rendering C14 gives a statement.
StatementText(statement) ==
    CASE statement.node = "LetStatement" ->
            Str(<<"l", "e", "t", " ">>) \o statement.Name.Value \o Str(<<" ", "=", " ">>)
                \o ValueText(statement.Value) \o Str(<<";">>)
      [] statement.node = "ReturnStatement" ->
            Str(<<"r", "e", "t", "u", "r", "n", " ">>) \o ValueText(statement.Value)
                \o Str(<<";">>)
      [] OTHER -> String(statement).out

\* The texts one after the other, nothing between them.
RECURSIVE Concat(_)
Concat(texts) == IF texts = << >> THEN << >> ELSE Head(texts) \o Concat(Tail(texts))

\* C14: a LetStatement with a name renders as "let " + name + " = " + value
\* + ";" and a ReturnStatement as "return " + value + ";", the value being
\* empty when it is nil; Program.String() is the statements' renderings in
\* order with nothing between them.
C14_LetReturnRendering ==
    tc.kind = "ast" /\ pc = "rendered" =>
        /\ ~rendered.panic
        /\ rendered.out = Concat([i \in 1..Len(program.Statements) |->
                                    StatementText(program.Statements[i])])
        /\ \A i \in 1..Len(program.Statements) :
            String(program.Statements[i]) = Written(StatementText(program.Statements[i]))

\* The program of a let statement with a value, a return without one and a
\* let without one was rendered.
C14_Witness ==
    /\ pc = "rendered"
    /\ tc.kind = "ast"
    /\ Len(program.Statements) = 3
    /\ program.Statements[1].node = "LetStatement"
    /\ program.Statements[1].Value # NIL
    /\ program.Statements[2] =
            ReturnStatement(Token(token_RETURN, Str(<<"r", "e", "t", "u", "r", "n">>)), NIL)
    /\ program.Statements[3].node = "LetStatement"
    /\ program.Statements[3].Value = NIL
    /\ rendered.out = StatementText(program.Statements[1])
                        \o Str(<<"r", "e", "t", "u", "r", "n", " ", ";">>)
                        \o StatementText(program.Statements[3])

----------------------------------------------------------------------------
(* C15 *)

\* The tokens successive NextToken calls on l return, up to the first EOF.
RECURSIVE TokensUntilEOF(_)
TokensUntilEOF(l) ==
    LET more(r) ==
            IF r.tok.Type = token_EOF \/ r.l.panicked THEN << >>
            ELSE << r.tok >> \o TokensUntilEOF(r.l)
    IN  more(NextToken(l))

\* The text without its space, tab, newline and carriage-return bytes.
WithoutWhitespace(text) ==
    LET blank(b) == b \in {32, 9, 10, 13}
        black(b) == ~blank(b)
    IN  SelectSeq(text, black)

\* C15: on an input of ASCII bytes without a zero byte the literals of the
\* tokens up to the first EOF, joined in order, are the input without its
\* white space, and no token is white space.
C15_LiteralsCoverInput ==
    /\ pc = "lexer"
    /\ \A i \in 1..Len(input) : input[i] # 0 /\ input[i] < 128
    => LET tokens == TokensUntilEOF(lexer)
       IN  /\ Concat([i \in 1..Len(tokens) |-> tokens[i].Literal])
                = WithoutWhitespace(input)
           /\ \A i \in 1..Len(tokens) :
                /\ tokens[i].Literal # << >>
                /\ WithoutWhitespace(tokens[i].Literal) = tokens[i].Literal

\* An identifier, a carriage return, a tab and `!=`: two tokens.
C15_Witness ==
    /\ pc = "lexer"
    /\ input = Str(<<"a", "\r", "\t", "!">>) \/ input = Str(<<"a", "\r", "!", "=">>)
    /\ Len(TokensUntilEOF(lexer)) = 2
    /\ TokensUntilEOF(lexer)[1].Literal = Str(<<"a">>)

----------------------------------------------------------------------------
(* C16 *)

\* What the REPL is expected to write for the named lines: per line the
\* prompt and one line per token of a fresh lexer up to the first EOF.
RECURSIVE LinesOutput(_)
LinesOutput(lines) ==
    IF lines = << >> THEN << >>
    ELSE LET tokens == TokensUntilEOF(lexer_New(ReplLine[Head(lines)]))
         IN  << Fprint(PROMPT) >>
                \o [i \in 1..Len(tokens) |-> Sprintf("%+v\n", << tokens[i] >>)]
                \o LinesOutput(Tail(lines))

\* The prompts written so far.
Prompts == Len(SelectSeq(stdout, LAMBDA w : w = Fprint(PROMPT)))

\* C16: Start writes, for each input line in order, the prompt and one line
\* {Type:<kind> Literal:<literal>} per token of a fresh lexer over the line,
\* the first EOF excluded, and after the last line one more prompt; then it
\* returns, all input read.
C16_ReplOutput ==
    tc.kind = "repl" /\ pc = "returned" =>
        /\ Prompts = Len(tc.lines) + 1
        /\ stdin = << >>
        /\ stdout = LinesOutput(tc.lines) \o << Fprint(PROMPT) >>

----------------------------------------------------------------------------
(* C17 *)

\* The returns of parseBlockStatement in the log.
BlockReturns ==
    {i \in 1..Len(parser.log) : parser.log[i].fn = "parseBlockStatement"}

\* C17 as stated: whenever parseBlockStatement returns, the current token is
\* the closing `}`.
C17_BlockEndsOnBrace ==
    \A i \in BlockReturns : parser.log[i].current.Type = token_RBRACE

\* C17, amended: parseBlockStatement is entered on `{`, and whenever it
\* returns the current token is a `}` or, when the input ended first, EOF; it
\* has not advanced past either.
C17_BlockEndsOnBraceOrEOF ==
    \A i \in BlockReturns :
        LET e == parser.log[i] IN
        /\ e.current0.Type = token_LBRACE
        /\ e.val.Token = e.current0
        /\ e.advances > e.advances0
        /\ e.current.Type \in {token_RBRACE, token_EOF}
        /\ e.current.Type = token_EOF => e.peek.Type = token_EOF

\* Of the two blocks of an if/else the first ended on its `}` and the second,
\* cut off, on EOF.
C17_Witness ==
    /\ pc = "parsed"
    /\ Cardinality(BlockReturns) = 2
    /\ \E i \in BlockReturns :
        /\ parser.log[i].current = Token(token_RBRACE, Str(<<"}">>))
        /\ parser.log[i].peek.Type = token_ELSE
    /\ \E i \in BlockReturns :
        /\ parser.log[i].current.Type = token_EOF
        /\ Len(parser.log[i].val.Statements) = 1

----------------------------------------------------------------------------
(* C18 *)

\* The tokens of the input, the EOF excluded.
InputTokens == TokensUntilEOF(lexer_New(input))

\* The index in tokens, from k on, of the `}` that closes a block entered with
\* depth more blocks open inside it; 0 when there is none.
RECURSIVE MatchingBrace(_, _, _)
MatchingBrace(tokens, k, depth) ==
    IF k > Len(tokens) THEN 0
    ELSE IF tokens[k].Type = token_RBRACE
    THEN IF depth = 0 THEN k ELSE MatchingBrace(tokens, k + 1, depth - 1)
    ELSE IF tokens[k].Type = token_LBRACE
    THEN MatchingBrace(tokens, k + 1, depth + 1)
    ELSE MatchingBrace(tokens, k + 1, depth)

\* The index in the token stream of the current token after n advanceToken
\* calls: New makes two, which put the first token in current.
CurrentIndex(n) == n - 1

\* C18: a parseBlockStatement call entered on a `{` whose matching `}` is in
\* the token stream returns with current on that `}`, and the statements
\* parsed for the block end before it, also when the body holds a let or
\* return statement without `;` before the closing brace.
C18_BlockEndsOnMatchingBrace ==
    \A i \in BlockReturns :
        LET e == parser.log[i]
            close == MatchingBrace(InputTokens, CurrentIndex(e.advances0) + 1, 0)
        IN  close # 0 =>
                /\ e.current.Type = token_RBRACE
                /\ CurrentIndex(e.advances) = close
                /\ \A j \in StatementReturns :
                    j < i /\ parser.log[j].advances0 > e.advances0
                        => CurrentIndex(parser.log[j].advances) < close

----------------------------------------------------------------------------
(* C19 *)

\* C19: Program.String() completes on every program the parser returns,
\* without dereferencing a nil child, whether or not errors were recorded.
C19_StringIsTotal == pc = "rendered" => ~rendered.panic

----------------------------------------------------------------------------
(* C20 *)

AdvanceIfReturns == {i \in 1..Len(parser.log) : parser.log[i].fn = "advanceIfPeekIs"}

\* C20: advanceIfPeekIs(kind) with peek of that kind advances exactly one
\* token, appends no error and returns true; otherwise it appends exactly the
\* error "expected next token to be <kind>, got <peek kind> instead", returns
\* with the current token a SEMICOLON or EOF, and returns false.
C20_AdvanceIfPeekIs ==
    \A i \in AdvanceIfReturns :
        LET e == parser.log[i]
        IN  IF e.peek0.Type = e.arg
            THEN /\ e.val = TRUE
                 /\ e.advances = e.advances0 + 1
                 /\ e.current = e.peek0
                 /\ e.errors = e.errors0
            ELSE /\ e.val = FALSE
                 /\ e.errors = e.errors0 + 1
                 /\ parser.errors[e.errors] =
                        Sprintf("expected next token to be %s, got %s instead",
                                << e.arg, e.peek0.Type >>)
                 /\ e.current.Type \in {token_SEMICOLON, token_EOF}

\* One call advanced; another failed on a peek that is neither `;` nor EOF,
\* skipped more than one token and stopped on a `;`.
C20_Witness ==
    /\ pc = "parsed"
    /\ \E i \in AdvanceIfReturns : parser.log[i].val = TRUE
    /\ \E i \in AdvanceIfReturns :
        LET e == parser.log[i]
        IN  /\ e.val = FALSE
            /\ e.peek0.Type \notin {token_SEMICOLON, token_EOF}
            /\ e.advances > e.advances0 + 1
            /\ e.current.Type = token_SEMICOLON

----------------------------------------------------------------------------
(* C21 *)

\* The k-th token NextToken returns, counted from lexer l.
RECURSIVE NthToken(_, _)
NthToken(l, k) ==
    LET next(r) == IF k = 1 THEN r.tok ELSE NthToken(r.l, k - 1)
    IN  next(NextToken(l))

\* The k-th token of the input.
InputToken(k) == NthToken(lexer_New(input), k)

\* The returns of parseStatement entered on a token of the given kind:
\* parseLetStatement for LET, parseReturnStatement for RETURN.
ReturnsOn(kind) == {i \in StatementReturns : parser.log[i].current0.Type = kind}

\* C21: parseLetStatement returns a statement exactly when the two tokens
\* after `let` are IDENT then ASSIGN; the statement's name is that identifier
\* and its value is nil; current is `;` or EOF on every return.
\* parseReturnStatement always returns a statement with nil value and leaves
\* current on `;` or EOF.
C21_LetAndReturn ==
    /\ \A i \in ReturnsOn(token_LET) :
        LET e == parser.log[i]
            k == CurrentIndex(e.advances0)
            name == InputToken(k + 1)
        IN  /\ e.val # NIL <=> /\ name.Type = token_IDENT
                               /\ InputToken(k + 2).Type = token_ASSIGN
            /\ e.val # NIL =>
                /\ e.val.node = "LetStatement"
                /\ e.val.Token = e.current0
                /\ e.val.Name # NIL
                /\ e.val.Name.node = "Identifier"
                /\ e.val.Name.Token = name
                /\ e.val.Name.Token.Type = token_IDENT
                /\ e.val.Name.Value = name.Literal
                /\ e.val.Value = NIL
            /\ e.current.Type \in {token_SEMICOLON, token_EOF}
    /\ \A i \in ReturnsOn(token_RETURN) :
        LET e == parser.log[i]
        IN  /\ e.val = ReturnStatement(e.current0, NIL)
            /\ e.current.Type \in {token_SEMICOLON, token_EOF}

\* A let statement was returned, another let failed, and a return statement
\* ended on `;` after skipping its expression.
C21_Witness ==
    /\ pc = "parsed"
    /\ \E i \in ReturnsOn(token_LET) :
        parser.log[i].val # NIL /\ parser.log[i].current.Type = token_SEMICOLON
    /\ \E i \in ReturnsOn(token_LET) :
        parser.log[i].val = NIL /\ parser.log[i].errors = parser.log[i].errors0 + 1
    /\ \E i \in ReturnsOn(token_RETURN) :
        /\ parser.log[i].advances > parser.log[i].advances0
        /\ parser.log[i].current.Type = token_SEMICOLON

----------------------------------------------------------------------------
(* C22 *)

\* The returns of parseExpression that reported a missing prefix function.
NoPrefixReturns == {i \in 1..Len(parser.log) : parser.log[i].fn = "parseExpression"}

\* The token kinds New registers a prefix function for.
PrefixKinds ==
    {token_IDENT, token_INT, token_TRUE, token_FALSE, token_BANG, token_MINUS,
     token_LPAREN, token_IF}

\* C22: parseExpression entered on a token without prefix function appends
\* the one error "no prefix parse function for <kind> found", returns nil and
\* does not advance; parseExpressionStatement entered on such a token still
\* returns the ExpressionStatement, with a nil expression.
C22_NoPrefixFunction ==
    /\ DOMAIN prefixParseFns = PrefixKinds
    /\ \A i \in NoPrefixReturns :
        LET e == parser.log[i]
        IN  /\ e.current0.Type \notin PrefixKinds
            /\ e.val = NIL
            /\ e.errors = e.errors0 + 1
            /\ parser.errors[e.errors] =
                    Sprintf("no prefix parse function for %s found", << e.current0.Type >>)
            /\ e.advances = e.advances0
            /\ e.current = e.current0
            /\ e.peek = e.peek0
    /\ \A i \in StatementReturns :
        LET e == parser.log[i]
        IN  e.current0.Type \notin PrefixKinds \cup {token_LET, token_RETURN} =>
                /\ e.val = ExpressionStatement(e.current0, NIL)
                /\ i - 1 \in NoPrefixReturns
                /\ parser.log[i - 1].advances0 = e.advances0
                /\ e.errors = e.errors0 + 1
                /\ e.advances = e.advances0 + (IF e.peek0.Type = token_SEMICOLON THEN 1 ELSE 0)

\* An expression statement began with `)` and was returned with a nil
\* expression, and an operand was missing inside an expression.
C22_Witness ==
    /\ pc = "parsed"
    /\ \E i \in StatementReturns :
        /\ parser.log[i].current0.Type = token_RPAREN
        /\ parser.log[i].val = ExpressionStatement(parser.log[i].current0, NIL)
    /\ \E i \in NoPrefixReturns :
        /\ parser.log[i].current0.Type = token_FUNCTION
        /\ \A j \in StatementReturns :
            parser.log[j].advances0 # parser.log[i].advances0

----------------------------------------------------------------------------
(* C23 *)

\* C23: on an INT token whose digit run has a base-10 value above 2^63 - 1,
\* parseIntegerLiteral appends the one error `could not parse "<literal>" as
\* integer`, returns nil and does not advance.
C23_OutOfRange ==
    \A i \in IntegerReturns :
        LET e == parser.log[i] IN
        /\ e.current0.Type = token_INT
        /\ ~ValueLeq(DigitsValue(e.current0.Literal, 10), MaxInt64)
        => /\ e.errors = e.errors0 + 1
           /\ parser.errors[e.errors] =
                Sprintf("could not parse %q as integer", << e.current0.Literal >>)
           /\ e.val = NIL
           /\ e.advances = e.advances0
           /\ e.current = e.current0

----------------------------------------------------------------------------
(* C24 *)

\* Node n and the nodes below it have the children a complete parse gives them.
RECURSIVE Complete(_)
Complete(n) ==
    CASE n.node = "InfixExpression" ->
            /\ n.Left # NIL /\ n.Right # NIL
            /\ Complete(n.Left) /\ Complete(n.Right)
      [] n.node = "PrefixExpression" -> n.Right # NIL /\ Complete(n.Right)
      [] n.node = "IfExpression" ->
            /\ n.Condition # NIL /\ n.Consequence # NIL
            /\ Complete(n.Condition) /\ Complete(n.Consequence)
            /\ n.Alternative # NIL => Complete(n.Alternative)
      [] n.node = "ExpressionStatement" -> n.Expression # NIL /\ Complete(n.Expression)
      [] n.node = "BlockStatement" ->
            \A i \in 1..Len(n.Statements) : Complete(n.Statements[i])
      [] OTHER -> TRUE

\* C24: when ParseProgram ends with an empty error list, every
\* InfixExpression of the tree has left and right, every PrefixExpression has
\* right, every IfExpression has condition and consequence, and every
\* ExpressionStatement has its expression.
C24_NoErrorsCompleteTree ==
    Finished /\ Errors(parser) = << >> =>
        \A i \in 1..Len(program.Statements) : Complete(program.Statements[i])

\* ParseProgram ended without error on an if expression with both blocks, each
\* holding an expression statement.
C24_Witness ==
    /\ pc = "parsed"
    /\ Errors(parser) = << >>
    /\ Len(program.Statements) = 1
    /\ program.Statements[1].node = "ExpressionStatement"
    /\ program.Statements[1].Expression.node = "IfExpression"
    /\ program.Statements[1].Expression.Alternative # NIL
    /\ Len(program.Statements[1].Expression.Consequence.Statements) = 1
    /\ Len(program.Statements[1].Expression.Alternative.Statements) = 1

----------------------------------------------------------------------------
(* C25 *)

\* The token kinds that can take the branch `infix == nil` of parseExpression:
\* their precedence is above LOWEST, the least the loop is entered with, and
\* infixParseFns has no entry for them.
InfixAbsentKinds ==
    {k \in DOMAIN precedences : precedences[k] > LOWEST} \ DOMAIN infixParseFns

\* The expression a one-token operand parses to.
OperandNode(t) ==
    IF t.Type = token_IDENT THEN Identifier(t, t.Literal)
    ELSE Boolean(t, t.Type = token_TRUE)

\* C25: LPAREN is the only token kind with a precedence above LOWEST and no
\* infix function; with peek = LPAREN the loop of parseExpression returns the
\* expression parsed so far, advancing nothing and recording nothing, so that
\* `a(b)` gives the two expression statements `a` and `b` and no error.
C25_CallReserved ==
    /\ InfixAbsentKinds = {token_LPAREN}
    /\ \A i \in StatementReturns :
        LET e == parser.log[i]
        IN  /\ e.current0.Type \in {token_IDENT, token_TRUE, token_FALSE}
            /\ e.peek0.Type = token_LPAREN
            => /\ e.val = ExpressionStatement(e.current0, OperandNode(e.current0))
               /\ e.advances = e.advances0
               /\ e.errors = e.errors0
               /\ e.current = e.current0
               /\ e.peek = e.peek0
    /\ /\ tc.kind = "kinds"
       /\ tc.lexeme = Str(<<"(">>)
       /\ tc.context = << <<Str(<<"x">>)>>, <<Str(<<"y">>), Str(<<")">>)>> >>
       /\ Finished
       => /\ Errors(parser) = << >>
          /\ Len(program.Statements) = 2
          /\ program.Statements[1] =
                ExpressionStatement(Token(token_IDENT, Str(<<"x">>)), IdentNode(Str(<<"x">>)))
          /\ program.Statements[2] =
                ExpressionStatement(Token(token_LPAREN, Str(<<"(">>)), IdentNode(Str(<<"y">>)))

\* ParseProgram returned on `x ( y )`.
C25_Witness ==
    /\ pc = "parsed"
    /\ tc.kind = "kinds"
    /\ tc.lexeme = Str(<<"(">>)
    /\ tc.context = << <<Str(<<"x">>)>>, <<Str(<<"y">>), Str(<<")">>)>> >>
    /\ \E i \in StatementReturns :
        parser.log[i].current0.Type = token_IDENT /\ parser.log[i].peek0.Type = token_LPAREN

----------------------------------------------------------------------------
(* C26 *)

\* Sequence s begins sequence t.
IsPrefix(s, t) == Len(s) <= Len(t) /\ SubSeq(t, 1, Len(s)) = s

\* The methods that call addError themselves.
Reporters == {"advanceIfPeekIs", "parseExpression", "parseIntegerLiteral"}

\* The returns this step adds to the log.
NewReturns == (Len(parser.log) + 1)..Len(parser'.log)

\* C26: the error list is append-only: a step of New or ParseProgram keeps
\* the messages it found, in place, and adds messages at the end only, one
\* for each call that reports.
C26_ErrorsAppendOnly ==
    [][/\ IsPrefix(Errors(parser), Errors(parser'))
       /\ \A i \in NewReturns :
            LET e == parser'.log[i]
            IN  /\ Len(parser.errors) <= e.errors0
                /\ e.errors0 <= e.errors
                /\ e.errors <= Len(parser'.errors)
                /\ e.fn \in Reporters => e.errors <= e.errors0 + 1
       /\ Len(parser'.errors) - Len(parser.errors) =
            Cardinality({i \in NewReturns :
                            /\ parser'.log[i].fn \in Reporters
                            /\ parser'.log[i].errors = parser'.log[i].errors0 + 1})
      ]_vars

\* ParseProgram returned with three messages, the last two added by one
\* statement.
C26_Witness ==
    /\ pc = "parsed"
    /\ Len(Errors(parser)) = 3
    /\ \E i \in StatementReturns :
        parser.log[i].errors0 = 1 /\ parser.log[i].errors = 3

----------------------------------------------------------------------------
(* C27 *)

\* currentChar is the byte at currentPos, or 0 from the end of the input on;
\* nextPos is the position after currentPos, New on the empty input aside.
Positioned(l, fresh) ==
    /\ l.currentChar = IF l.currentPos < Len(l.input) THEN l.input[l.currentPos + 1] ELSE 0
    /\ \/ l.nextPos = l.currentPos + 1
       \/ fresh /\ l.input = << >> /\ l.currentPos = 0 /\ l.nextPos = 0

----------------------------------------------------------------------------
(* C28 *)

\* Every loop of the parser consumes: no two parseStatement calls, at top
\* level or in a block, begin on the same token; parseBlockStatement and
\* parseReturnStatement leave the token they were entered on; ParseProgram
\* returns on EOF.
ParserConsumes ==
    /\ \A i, j \in StatementReturns :
        i # j => parser.log[i].advances0 # parser.log[j].advances0
    /\ \A i \in BlockReturns : parser.log[i].advances > parser.log[i].advances0
    /\ \A i \in ReturnsOn(token_RETURN) : parser.log[i].advances > parser.log[i].advances0
    /\ Finished => parser.current.Type = token_EOF

\* An iteration of the loop of ParseProgram consumes at least one token.
IterationConsumes ==
    pc = "parsing" /\ pc' = "parsing" => parser'.advances > parser.advances

\* C28 as stated: every iteration of the top-level loop, of the block loop
\* and of skipToStatementEnd consumes at least one token, every NextToken
\* call advances currentPos by at least one, and ParseProgram returns with
\* current = EOF.
C28_ProgressByCurrentPos ==
    /\ [](ParserConsumes /\ (pc = "tokens" => lexer.currentPos > prev.currentPos))
    /\ [][IterationConsumes]_vars

\* C28 with the lexer's progress measured by nextPos: every NextToken call
\* advances nextPos by at least one, and currentPos as well unless it is the
\* first call on the empty input.
C28_ProgressByNextPos ==
    /\ [](/\ ParserConsumes
          /\ pc = "tokens" =>
                /\ lexer.nextPos > prev.nextPos
                /\ lexer.currentPos > prev.currentPos \/ (input = << >> /\ calls = 1))
    /\ [][IterationConsumes]_vars

\* ParseProgram returned after at least three parseStatement calls, one of
\* them in a block, and a skipped return statement.
C28_Witness ==
    /\ pc = "parsed"
    /\ Cardinality(StatementReturns) >= 3
    /\ BlockReturns # {}
    /\ ReturnsOn(token_RETURN) # {}
    /\ parser.current.Type = token_EOF

----------------------------------------------------------------------------
(* C29 *)

\* C29: once NextToken has returned EOF, every later call on the lexer
\* returns EOF, also on an input with a zero byte before its end; and EOF is
\* returned only from the end of the input on.
C29_EofAbsorbing ==
    /\ [](pc = "tokens" /\ tok.Type = token_EOF =>
            skipWhitespace(prev).currentPos >= Len(input))
    /\ [][pc = "tokens" /\ tok.Type = token_EOF /\ pc' = "tokens"
            => tok'.Type = token_EOF]_vars

----------------------------------------------------------------------------
(* C30 *)

====
